---- MODULE Spec2Model ----
(***************************************************************************)
(* Model of the tool-calling orchestration of the movie chatbot:           *)
(*   - executeTool   (lib/ai/tools.ts)  : the tool executor                *)
(*   - chatWithTools (lib/ai/chat.ts)   : one conversational turn          *)
(* Strings of the program are TLA+ strings; a value that is null or        *)
(* undefined in the program is one of the two marker strings below.        *)
(* Collaborators that live outside the modelled files (the LLM, the movie  *)
(* catalog, the semantic recommender, the history store reads) are         *)
(* nondeterministic: every call may return a value or throw.  The message  *)
(* store (prisma.message / prisma.conversation) accepts every write.       *)
(***************************************************************************)
EXTENDS Integers, Sequences, FiniteSets, TLC

Null == "<null>"
Undefined == "<undefined>"

(***************************************************************************)
(* Bounds of the model.                                                    *)
(***************************************************************************)
\* tool calls the LLM puts in one reply
MaxCalls == 2
\* tool calls the LLM requests over one turn
MaxTurnCalls == 5

(***************************************************************************)
(* Text helpers (String.prototype.includes / toLowerCase).                 *)
(***************************************************************************)
Includes(hay, needle) ==
  \E i \in 1..(Len(hay) - Len(needle) + 1) :
     SubSeq(hay, i, i + Len(needle) - 1) = needle

LowerChar(c) ==
  CASE c = "A" -> "a" [] c = "B" -> "b" [] c = "C" -> "c" [] c = "D" -> "d"
    [] c = "E" -> "e" [] c = "F" -> "f" [] c = "G" -> "g" [] c = "H" -> "h"
    [] c = "I" -> "i" [] c = "J" -> "j" [] c = "K" -> "k" [] c = "L" -> "l"
    [] c = "M" -> "m" [] c = "N" -> "n" [] c = "O" -> "o" [] c = "P" -> "p"
    [] c = "Q" -> "q" [] c = "R" -> "r" [] c = "S" -> "s" [] c = "T" -> "t"
    [] c = "U" -> "u" [] c = "V" -> "v" [] c = "W" -> "w" [] c = "X" -> "x"
    [] c = "Y" -> "y" [] c = "Z" -> "z" [] OTHER -> c

RECURSIVE ToLowerCase(_)
ToLowerCase(s) ==
  IF Len(s) = 0 THEN ""
  ELSE LowerChar(SubSeq(s, 1, 1)) \o ToLowerCase(SubSeq(s, 2, Len(s)))

CharAt(s, i) == SubSeq(s, i, i)

StartsAt(s, i, p) ==
  i >= 1 /\ i + Len(p) - 1 <= Len(s) /\ SubSeq(s, i, i + Len(p) - 1) = p

Digits == {"0", "1", "2", "3", "4", "5", "6", "7", "8", "9"}
LowerLetters ==
  {"a", "b", "c", "d", "e", "f", "g", "h", "i", "j", "k", "l", "m",
   "n", "o", "p", "q", "r", "s", "t", "u", "v", "w", "x", "y", "z"}
UpperLetters ==
  {"A", "B", "C", "D", "E", "F", "G", "H", "I", "J", "K", "L", "M",
   "N", "O", "P", "Q", "R", "S", "T", "U", "V", "W", "X", "Y", "Z"}
\* \w, \s and the quote class ["“”'] of the regular expressions (the model's
\* alphabet is ASCII)
IsWordChar(c) == c \in Digits \cup LowerLetters \cup UpperLetters \cup {"_"}
IsSpace(c) == c \in {" ", "\t", "\n"}
IsQuote(c) == c \in {"\"", "'"}
\* the class [^\n.,;!?]
IsStop(c) == c \in {"\n", ".", ",", ";", "!", "?"}

\* new RegExp(`\\b${word}\\b`).test(s), for a word that starts and ends
\* with a word character
HasWord(s, word) ==
  \E i \in 1..(Len(s) - Len(word) + 1) :
     /\ StartsAt(s, i, word)
     /\ (i = 1 \/ ~IsWordChar(CharAt(s, i - 1)))
     /\ (i + Len(word) > Len(s) \/ ~IsWordChar(CharAt(s, i + Len(word))))

\* String.prototype.trim
RECURSIVE TrimStart(_)
TrimStart(s) ==
  IF Len(s) > 0 /\ IsSpace(CharAt(s, 1))
  THEN TrimStart(SubSeq(s, 2, Len(s))) ELSE s
RECURSIVE TrimEnd(_)
TrimEnd(s) ==
  IF Len(s) > 0 /\ IsSpace(CharAt(s, Len(s)))
  THEN TrimEnd(SubSeq(s, 1, Len(s) - 1)) ELSE s
Trim(s) == TrimEnd(TrimStart(s))

\* the smallest element of a non-empty set of integers
Min(S) == CHOOSE m \in S : \A n \in S : m <= n

\* Array.from(new Set(items)): the first occurrence of every value
RECURSIVE Dedupe(_)
Dedupe(items) ==
  IF items = <<>> THEN <<>>
  ELSE LET front == Dedupe(SubSeq(items, 1, Len(items) - 1))
           last  == items[Len(items)]
       IN IF \E i \in 1..Len(front) : front[i] = last
          THEN front ELSE Append(front, last)

(***************************************************************************)
(* Constraint extractors of chat.ts.                                       *)
(***************************************************************************)
GENRES ==
  << "Action", "Adventure", "Animation", "Comedy", "Crime", "Documentary",
     "Drama", "Family", "Fantasy", "History", "Horror", "Music", "Mystery",
     "Romance", "Science Fiction", "TV Movie", "Thriller", "War", "Western" >>

GENRE_ALIASES ==
  [ g \in { GENRES[i] : i \in 1..Len(GENRES) } |->
      CASE g = "Action" -> {"action"}
        [] g = "Adventure" -> {"adventure"}
        [] g = "Animation" -> {"animation", "animated"}
        [] g = "Comedy" -> {"comedy", "comedies", "funny"}
        [] g = "Crime" -> {"crime", "criminal"}
        [] g = "Documentary" -> {"documentary", "documentaries", "doc"}
        [] g = "Drama" -> {"drama", "dramatic"}
        [] g = "Family" -> {"family", "kids", "kid", "children"}
        [] g = "Fantasy" -> {"fantasy", "fantastical"}
        [] g = "History" -> {"history", "historical"}
        [] g = "Horror" -> {"horror", "scary", "frightening"}
        [] g = "Music" -> {"music", "musical"}
        [] g = "Mystery" -> {"mystery"}
        [] g = "Romance" -> {"romance", "romantic", "love story"}
        [] g = "Science Fiction" ->
             {"science fiction", "sci fi", "sci-fi", "scifi"}
        [] g = "TV Movie" -> {"tv movie", "television movie", "tv-movie"}
        [] g = "Thriller" -> {"thriller", "thrillers"}
        [] g = "War" -> {"war", "warfare"}
        [] g = "Western" -> {"western", "west"} ]

AVOID_CUES == {"avoid", "no", "not", "without", "exclude", "skip"}
RECENT_CUES == {"recent", "newer", "latest", "modern", "not so old"}
RECOMMENDATION_CUES ==
  {"recommend", "recommendation", "movies like", "similar to", "suggest"}
SPLIT_WORDS == {"but", "and", "without", "avoid"}

\* a cue found anywhere in the text, inside a word too
IncludesAvoidCue(lower) == \E cue \in AVOID_CUES : Includes(lower, cue)

\* AVOID_CUES.some((cue) => new RegExp(`\\b${cue}\\b`, "i").test(lower))
HasAvoidCue(lower) == \E cue \in AVOID_CUES : HasWord(lower, cue)

isRecommendationIntent(message) ==
  LET lower == ToLowerCase(message)
  IN \E cue \in RECOMMENDATION_CUES : Includes(lower, cue)

extractExcludedGenres(message) ==
  LET lower == ToLowerCase(message)
      hit(g) == \E alias \in GENRE_ALIASES[g] : HasWord(lower, alias)
  IN IF ~HasAvoidCue(lower) THEN <<>>
     ELSE SelectSeq(GENRES, hit)

\* the first match of /["“”']([^"“”']+)["“”']/ at or after position from:
\* <<index of the opening quote, index of the closing quote>>, or <<0, 0>>
QuotedFrom(s, from) ==
  LET opens == { i \in from..Len(s) :
                   /\ IsQuote(CharAt(s, i))
                   /\ i + 1 <= Len(s) /\ ~IsQuote(CharAt(s, i + 1))
                   /\ \E j \in (i + 2)..Len(s) : IsQuote(CharAt(s, j)) }
  IN IF opens = {} THEN <<0, 0>>
     ELSE LET i == Min(opens)
          IN <<i, Min({ j \in (i + 2)..Len(s) : IsQuote(CharAt(s, j)) })>>

\* raw.split(/but|and|without|avoid/i)[0]
SplitHead(raw) ==
  LET lower == ToLowerCase(raw)
      cuts == { i \in 1..Len(raw) : \E w \in SPLIT_WORDS : StartsAt(lower, i, w) }
  IN IF cuts = {} THEN raw ELSE SubSeq(raw, 1, Min(cuts) - 1)

\* the capture of  keyword \s+ ([^\n.,;!?]+)  when the keyword ends at
\* position e of s: <<found, captured text>>
CaptureAfter(s, e) ==
  LET spaces == { k \in 1..(Len(s) - e) :
                    \A i \in (e + 1)..(e + k) : IsSpace(CharAt(s, i)) }
      run == IF spaces = {} THEN 0 ELSE Cardinality(spaces)
      stops == { i \in (e + run + 1)..Len(s) : IsStop(CharAt(s, i)) }
      last == IF stops = {} THEN Len(s) ELSE Min(stops) - 1
  IN IF run = 0 THEN <<FALSE, "">>
     ELSE IF last >= e + run + 1 THEN <<TRUE, SubSeq(s, e + run + 1, last)>>
     ELSE IF run >= 2 /\ CharAt(s, e + run) # "\n"
     THEN <<TRUE, CharAt(s, e + run)>>
     ELSE <<FALSE, "">>

\* the first match of /keyword\s+([^\n.,;!?]+)/i over the given keywords
FirstCapture(message, keywords) ==
  LET lower == ToLowerCase(message)
      ends(i) == { i + Len(w) - 1 : w \in { k \in keywords : StartsAt(lower, i, k) } }
      hits == { i \in 1..Len(message) :
                  \E e \in ends(i) : CaptureAfter(message, e)[1] }
  IN IF hits = {} THEN <<FALSE, "">>
     ELSE LET i == Min(hits)
              e == CHOOSE x \in ends(i) : CaptureAfter(message, x)[1]
          IN CaptureAfter(message, e)

extractSeedTitle(message) ==
  LET quoted == QuotedFrom(message, 1)
      likeMatch == FirstCapture(message, {"like", "similar to"})
      cleaned == Trim(SplitHead(likeMatch[2]))
  IN IF quoted[1] # 0
     THEN Trim(SubSeq(message, quoted[1] + 1, quoted[2] - 1))
     ELSE IF likeMatch[1] /\ cleaned # "" THEN cleaned
     ELSE Null

\* parseInt(digits, 10)
RECURSIVE ParseInt(_)
DigitValue(c) ==
  CASE c = "0" -> 0 [] c = "1" -> 1 [] c = "2" -> 2 [] c = "3" -> 3
    [] c = "4" -> 4 [] c = "5" -> 5 [] c = "6" -> 6 [] c = "7" -> 7
    [] c = "8" -> 8 [] c = "9" -> 9
ParseInt(digits) ==
  IF Len(digits) = 0 THEN 0
  ELSE 10 * ParseInt(SubSeq(digits, 1, Len(digits) - 1))
         + DigitValue(CharAt(digits, Len(digits)))

\* new Date().getFullYear()
CurrentYear == 2026
RecentYears == 15
NoYear == -1

\* the length of the run of white space that starts at position i
SpaceRun(s, i) ==
  Cardinality({ k \in 1..(Len(s) - i + 1) :
                  \A j \in i..(i + k - 1) : IsSpace(CharAt(s, j)) })

WordStart(s, i) == i = 1 \/ ~IsWordChar(CharAt(s, i - 1))
WordEnd(s, i) == i >= Len(s) \/ ~IsWordChar(CharAt(s, i + 1))

\* (19|20)\d{2}\b at position i
YearAt(s, i) ==
  /\ i + 3 <= Len(s)
  /\ SubSeq(s, i, i + 1) \in {"19", "20"}
  /\ CharAt(s, i + 2) \in Digits /\ CharAt(s, i + 3) \in Digits
  /\ WordEnd(s, i + 3)

\* the leftmost match of /\b(keyword)\s+(19|20)\d{2}\b/ (\s* when minRun
\* is 0): the year, or NoYear
KeywordYear(lower, keywords, minRun) ==
  LET yearPos(i, w) == i + Len(w) + SpaceRun(lower, i + Len(w))
      ok(i, w) == /\ StartsAt(lower, i, w) /\ WordStart(lower, i)
                  /\ SpaceRun(lower, i + Len(w)) >= minRun
                  /\ YearAt(lower, yearPos(i, w))
      hits == { i \in 1..Len(lower) : \E w \in keywords : ok(i, w) }
  IN IF hits = {} THEN NoYear
     ELSE LET i == Min(hits)
              w == CHOOSE k \in keywords : ok(i, k)
          IN ParseInt(SubSeq(lower, yearPos(i, w), yearPos(i, w) + 3))

\* the leftmost match of /\blast\s+(\d{1,2})\s+years?\b/: N, or NoYear
LastYears(lower) ==
  LET numPos(i) == i + 4 + SpaceRun(lower, i + 4)
      digits(i) == Cardinality({ k \in 1..(Len(lower) - numPos(i) + 1) :
                      \A j \in numPos(i)..(numPos(i) + k - 1) :
                         CharAt(lower, j) \in Digits })
      wordPos(i) == numPos(i) + digits(i)
                      + SpaceRun(lower, numPos(i) + digits(i))
      ok(i) == /\ StartsAt(lower, i, "last") /\ WordStart(lower, i)
               /\ SpaceRun(lower, i + 4) >= 1
               /\ digits(i) \in {1, 2}
               /\ SpaceRun(lower, numPos(i) + digits(i)) >= 1
               /\ StartsAt(lower, wordPos(i), "year")
               /\ \/ WordEnd(lower, wordPos(i) + 3)
                  \/ /\ StartsAt(lower, wordPos(i), "years")
                     /\ WordEnd(lower, wordPos(i) + 4)
      hits == { i \in 1..Len(lower) : ok(i) }
  IN IF hits = {} THEN NoYear
     ELSE LET i == Min(hits)
          IN ParseInt(SubSeq(lower, numPos(i), numPos(i) + digits(i) - 1))

YearConstraints(minYear, maxYear, title) ==
  [minYear |-> minYear, maxYear |-> maxYear, notAsOldAsTitle |-> title]

extractYearConstraints(message) ==
  LET lower == ToLowerCase(message)
      matchAfter == KeywordYear(lower, {"after", "since"}, 1)
      matchAtLeast ==
        KeywordYear(lower, {"at least from", "at least since", "at least "}, 0)
      matchBefore == KeywordYear(lower, {"before", "older than"}, 1)
      matchLastYears == LastYears(lower)
      hasRecentCue == \E cue \in RECENT_CUES : HasWord(lower, cue)
      notAsOldAs == FirstCapture(message, {"not as old as"})
      cleaned == Trim(SplitHead(notAsOldAs[2]))
  IN IF matchAfter # NoYear THEN YearConstraints(matchAfter, NoYear, Null)
     ELSE IF matchAtLeast # NoYear
     THEN YearConstraints(matchAtLeast, NoYear, Null)
     ELSE IF matchBefore # NoYear
     THEN YearConstraints(NoYear, matchBefore, Null)
     ELSE IF matchLastYears # NoYear
     THEN YearConstraints(CurrentYear - matchLastYears, NoYear, Null)
     ELSE IF hasRecentCue
     THEN YearConstraints(CurrentYear - RecentYears, NoYear, Null)
     ELSE IF notAsOldAs[1] /\ cleaned # ""
     THEN YearConstraints(NoYear, NoYear, cleaned)
     ELSE YearConstraints(NoYear, NoYear, Null)

\* message.matchAll(/["“”']([^"“”']+)["“”']/g), keeping the captures that
\* come after a negation cue
RECURSIVE QuotedAfterCue(_, _)
QuotedAfterCue(message, from) ==
  LET q == QuotedFrom(message, from)
      before == ToLowerCase(SubSeq(message, 1, q[1] - 1))
      rest == QuotedAfterCue(message, q[2] + 1)
  IN IF q[1] = 0 THEN <<>>
     ELSE IF \E cue \in AVOID_CUES : Includes(before, cue)
     THEN <<Trim(SubSeq(message, q[1] + 1, q[2] - 1))>> \o rest
     ELSE rest

\* the prefixes of the franchise pattern
\*   /avoid(?: any| the)?(?: movies)?(?: from)?(?: the)?\s+(.+?)\s+(saga|series|franchise)/i
\* in the order in which the regular expression tries them
FRANCHISE_CUES == {"saga", "series", "franchise"}
FranchisePrefixes ==
  [ n \in 1..24 |->
      "avoid" \o <<" any", " the", "">>[((n - 1) \div 8) + 1]
              \o <<" movies", "">>[(((n - 1) \div 4) % 2) + 1]
              \o <<" from", "">>[(((n - 1) \div 2) % 2) + 1]
              \o <<" the", "">>[((n - 1) % 2) + 1] ]

\* \s+(saga|series|franchise) right after position f
FranchiseTail(lower, f) ==
  /\ SpaceRun(lower, f + 1) >= 1
  /\ \E w \in FRANCHISE_CUES :
        StartsAt(lower, f + 1 + SpaceRun(lower, f + 1), w)

\* the captures (.+?) that a prefix ending at position e allows:
\* <<start, end>> pairs
FranchiseCaptures(lower, e) ==
  { c \in (1..Len(lower)) \X (1..Len(lower)) :
      /\ c[1] >= e + 2 /\ c[1] <= e + 1 + SpaceRun(lower, e + 1)
      /\ c[2] >= c[1]
      /\ \A j \in c[1]..c[2] : CharAt(lower, j) # "\n"
      /\ FranchiseTail(lower, c[2]) }

\* the first group of the franchise match: <<found, text>>
FranchiseMatch(message) ==
  LET lower == ToLowerCase(message)
      caps(i, n) ==
        IF StartsAt(lower, i, FranchisePrefixes[n])
        THEN FranchiseCaptures(lower, i + Len(FranchisePrefixes[n]) - 1)
        ELSE {}
      hits == { i \in 1..Len(lower) : \E n \in 1..24 : caps(i, n) # {} }
  IN IF hits = {} THEN <<FALSE, "">>
     ELSE LET i == Min(hits)
              n == Min({ m \in 1..24 : caps(i, m) # {} })
              \* \s+ is greedy: the latest start; (.+?) is lazy: the
              \* earliest end
              start == CHOOSE a \in { c[1] : c \in caps(i, n) } :
                         \A c \in caps(i, n) : c[1] <= a
              end == Min({ c[2] : c \in { d \in caps(i, n) : d[1] = start } })
          IN <<TRUE, SubSeq(message, start, end)>>

extractExcludedTitles(message) ==
  LET lower == ToLowerCase(message)
      hasCue == HasAvoidCue(lower)
      quoted == QuotedAfterCue(message, 1)
      franchiseMatch == FranchiseMatch(message)
      franchise == IF franchiseMatch[1] /\ franchiseMatch[2] # ""
                   THEN <<Trim(franchiseMatch[2])>> ELSE <<>>
      starTrek == IF Includes(lower, "star trek") /\ hasCue
                  THEN <<"Star Trek">> ELSE <<>>
  IN IF ~hasCue THEN <<>>
     ELSE Dedupe(quoted \o franchise \o starTrek)

\* filterExcludedTitles
filterExcludedTitles(items, excludedTitles) ==
  LET keep(item) ==
        \A i \in 1..Len(excludedTitles) :
           ~Includes(ToLowerCase(item.title), ToLowerCase(excludedTitles[i]))
  IN IF Len(excludedTitles) = 0 THEN items ELSE SelectSeq(items, keep)

(***************************************************************************)
(* Values exchanged with the collaborators.                                *)
(***************************************************************************)
Users == {"u1", "u2"}

Movie(id, title, year, genres) ==
  [id |-> id, title |-> title, releaseYear |-> year, genres |-> genres]

Arrival      == Movie(99, "Arrival", 2016, <<"Science Fiction">>)
BladeRunner  == Movie(7, "Blade Runner 2049", 2017, <<"Science Fiction">>)
Heat         == Movie(8, "Heat", 1995, <<"Crime">>)
Interstellar == Movie(42, "Interstellar", 2014, <<"Science Fiction">>)

\* lists a recommendation endpoint may answer with
MovieLists == { <<>>, <<Arrival>>, <<BladeRunner, Heat>> }

\* a value of a tool argument, tagged with its JSON type
Num(n) == [t |-> "number", v |-> n]
Str(s) == [t |-> "string", v |-> s]

\* the outcome of an awaited collaborator call
Returns(v) == [ok |-> TRUE, value |-> v]
Throws(m)  == [ok |-> FALSE, message |-> m]

(***************************************************************************)
(* The history store: WatchedMovie rows, unique per (userId, movieId).     *)
(***************************************************************************)
WatchedKey(row) == <<row.userId, row.movieId>>

\* an insert in place of the upsert
InsertWatched(rows, userId, movieId, movieTitle, now) ==
  rows \cup { [userId |-> userId, movieId |-> movieId,
               movieTitle |-> movieTitle, addedAt |-> now] }

\* prisma.watchedMovie.upsert of saveWatchedMovie
UpsertWatched(rows, userId, movieId, movieTitle, now) ==
  IF \E r \in rows : WatchedKey(r) = <<userId, movieId>>
  THEN { IF WatchedKey(r) = <<userId, movieId>>
         THEN [r EXCEPT !.movieTitle = movieTitle, !.addedAt = now]
         ELSE r : r \in rows }
  ELSE rows \cup { [userId |-> userId, movieId |-> movieId,
                    movieTitle |-> movieTitle, addedAt |-> now] }


RECURSIVE SortByAddedAtDesc(_)
SortByAddedAtDesc(rows) ==
  IF rows = {} THEN <<>>
  ELSE LET newest == CHOOSE r \in rows :
                       \A q \in rows : q.addedAt < r.addedAt \/ q = r
                       \/ (q.addedAt = r.addedAt /\ q.movieId >= r.movieId)
       IN <<newest>> \o SortByAddedAtDesc(rows \ {newest})

KeepDuplicates(items) == items

\* uniqueById of persistence.ts: keeps the first item of every id
RECURSIVE uniqueById(_)
uniqueById(items) ==
  IF items = <<>> THEN <<>>
  ELSE LET front == uniqueById(SubSeq(items, 1, Len(items) - 1))
           last  == items[Len(items)]
       IN IF \E i \in 1..Len(front) : front[i].id = last.id
          THEN front ELSE Append(front, last)

\* Array.prototype.slice(0, n)
Slice(items, n) == SubSeq(items, 1, IF Len(items) < n THEN Len(items) ELSE n)

RecentLimit == 3
HistoryRecsCap == 10

(***************************************************************************)
(* The environment of one executeTool call: what every collaborator        *)
(* answers.  getMovieRecommendations may be called several times by one    *)
(* tool, so its answers are a sequence consumed call by call.              *)
(***************************************************************************)
ToolEnv(search, details, semantic, recs, store) ==
  [searchMovies |-> search, getMovieDetails |-> details,
   getSemanticMovieRecommendations |-> semantic,
   getMovieRecommendations |-> recs, store |-> store]

Call(fn, userId, movieId) == [fn |-> fn, userId |-> userId, movieId |-> movieId]

\* what the body of the try block of executeTool does: it returns a value,
\* or throws, after a sequence of collaborator calls
Returned(result, error, calls, watched) ==
  [threw |-> FALSE, result |-> result, error |-> error, message |-> "",
   calls |-> calls, watched |-> watched]
Thrown(message, calls, watched) ==
  [threw |-> TRUE, result |-> [null |-> TRUE], error |-> Undefined,
   message |-> message, calls |-> calls, watched |-> watched]

NullResult == [null |-> TRUE]
ListResult(list) == [list |-> list]

\* z.object({...}).parse(args): every key of the schema is present with the
\* type the schema asks for (other keys are ignored)
ZodParses(schema, args) ==
  \A k \in DOMAIN schema : k \in DOMAIN args /\ args[k].t = schema[k]

ZodError == "zod: invalid arguments"

GetUserHistory(userId, watched) ==
  SortByAddedAtDesc({ r \in watched : r.userId = userId })

\* getRecommendationsFromHistory of persistence.ts (movie part): the
\* recommendations of the 3 most recent watched movies, a failing endpoint
\* call counting as an empty list, deduplicated and cut at 10
RECURSIVE FlatRecs(_, _)
FlatRecs(recent, recs) ==
  IF recent = <<>> THEN <<>>
  ELSE (IF recs[1].ok THEN recs[1].value ELSE <<>>)
         \o FlatRecs(Tail(recent), Tail(recs))

GetRecommendationsFromHistory(userId, watched, recs) ==
  LET recentMovies == Slice(GetUserHistory(userId, watched), RecentLimit)
  IN Slice(uniqueById(FlatRecs(recentMovies, recs)), HistoryRecsCap)

HistoryCalls(userId, watched) ==
  LET recentMovies == Slice(GetUserHistory(userId, watched), RecentLimit)
  IN <<Call("getUserHistory", userId, 0)>> \o
     [i \in 1..Len(recentMovies) |->
        Call("getMovieRecommendations", Null, recentMovies[i].movieId)]

\* the compound policy of get_semantic_movie_recommendations, once the
\* seed details are resolved
SemanticWithoutFallback(movie_id, env, calls, watched) ==
  LET semantic == env.getSemanticMovieRecommendations
      c1 == Append(calls, Call("getSemanticMovieRecommendations", Null, movie_id))
  IN IF semantic.ok
     THEN Returned(ListResult(semantic.value), Undefined, c1, watched)
     ELSE Thrown(semantic.message, c1, watched)
SemanticOrFallback(movie_id, env, calls, watched) ==
  LET semantic == env.getSemanticMovieRecommendations
      recs     == env.getMovieRecommendations
      c1 == Append(calls, Call("getSemanticMovieRecommendations", Null, movie_id))
      c2 == Append(c1, Call("getMovieRecommendations", Null, movie_id))
      c3 == Append(c2, Call("getMovieRecommendations", Null, movie_id))
  IN IF semantic.ok /\ semantic.value # <<>>
     THEN Returned(ListResult(semantic.value), Undefined, c1, watched)
     ELSE IF semantic.ok
     THEN \* empty list: the fallback runs inside the inner try
          IF recs[1].ok
          THEN Returned(ListResult(recs[1].value), Undefined, c2, watched)
          ELSE IF recs[2].ok
          THEN Returned(ListResult(recs[2].value), Undefined, c3, watched)
          ELSE Thrown(recs[2].message, c3, watched)
     ELSE \* the recommender threw: the fallback runs in the catch block
          IF recs[1].ok
          THEN Returned(ListResult(recs[1].value), Undefined, c2, watched)
          ELSE Thrown(recs[1].message, c2, watched)

\* saveWatchedMovie of persistence.ts
SaveWatchedMovie(userId, movieId, movieTitle, env, watched, now) ==
  LET calls == <<Call("saveWatchedMovie", userId, movieId)>>
  IN IF userId = "" \/ movieTitle = ""
     THEN Thrown("Failed to save watched movie: Error: Invalid arguments passed to saveWatchedMovie",
                 <<>>, watched)
     ELSE IF ~env.store.ok
     THEN Thrown("Failed to save watched movie: " \o env.store.message,
                 calls, watched)
     ELSE Returned([success |-> TRUE, message |-> "Movie saved to history"],
                   Undefined, calls,
                   UpsertWatched(watched, userId, movieId, movieTitle, now))

KnownTools ==
  {"search_movies", "get_movie_details", "get_movie_recommendations",
   "get_semantic_movie_recommendations", "save_watched_movie",
   "get_user_history", "get_recommendations_from_history",
   "get_user_feedback"}

UnknownToolError(toolName) == "Unknown tool: " \o toolName

\* the zod schema of every case of the switch
ToolSchema(toolName) ==
  CASE toolName = "search_movies" -> [query |-> "string"]
    [] toolName \in {"get_movie_details", "get_movie_recommendations",
                     "get_semantic_movie_recommendations"} ->
         [movie_id |-> "number"]
    [] toolName = "save_watched_movie" ->
         [movie_id |-> "number", movie_title |-> "string",
          user_id |-> "string"]
    [] OTHER -> [user_id |-> "string"]

\* the switch of executeTool
Dispatch(toolName, args, env, watched, now) ==
  CASE toolName = "search_movies" ->
         IF ~ZodParses(ToolSchema(toolName), args)
         THEN Thrown(ZodError, <<>>, watched)
         ELSE IF env.searchMovies.ok
         THEN Returned(ListResult(env.searchMovies.value), Undefined,
                       <<Call("searchMovies", Null, 0)>>, watched)
         ELSE Thrown(env.searchMovies.message,
                     <<Call("searchMovies", Null, 0)>>, watched)
    [] toolName = "get_movie_details" ->
         IF ~ZodParses(ToolSchema(toolName), args)
         THEN Thrown(ZodError, <<>>, watched)
         ELSE LET calls == <<Call("getMovieDetails", Null, args.movie_id.v)>>
              IN IF env.getMovieDetails.ok
                 THEN Returned(env.getMovieDetails.value, Undefined, calls, watched)
                 ELSE Thrown(env.getMovieDetails.message, calls, watched)
    [] toolName = "get_movie_recommendations" ->
         IF ~ZodParses(ToolSchema(toolName), args)
         THEN Thrown(ZodError, <<>>, watched)
         ELSE LET calls == <<Call("getMovieRecommendations", Null, args.movie_id.v)>>
                  recs  == env.getMovieRecommendations[1]
              IN IF recs.ok
                 THEN Returned(ListResult(recs.value), Undefined, calls, watched)
                 ELSE Thrown(recs.message, calls, watched)
    [] toolName = "get_semantic_movie_recommendations" ->
         IF ~ZodParses(ToolSchema(toolName), args)
         THEN Thrown(ZodError, <<>>, watched)
         ELSE LET calls == <<Call("getMovieDetails", Null, args.movie_id.v)>>
              IN IF env.getMovieDetails.ok
                 THEN SemanticOrFallback(args.movie_id.v, env, calls, watched)
                 ELSE Thrown(env.getMovieDetails.message, calls, watched)
    [] toolName = "save_watched_movie" ->
         IF ~ZodParses(ToolSchema(toolName), args)
         THEN Thrown(ZodError, <<>>, watched)
         ELSE SaveWatchedMovie(args.user_id.v, args.movie_id.v,
                               args.movie_title.v, env, watched, now)
    [] toolName = "get_user_history" ->
         IF ~ZodParses(ToolSchema(toolName), args)
         THEN Thrown(ZodError, <<>>, watched)
         ELSE LET calls == <<Call("getUserHistory", args.user_id.v, 0)>>
              IN IF env.store.ok
                 THEN Returned([watchedMovies |->
                                  GetUserHistory(args.user_id.v, watched)],
                               Undefined, calls, watched)
                 ELSE Thrown("Failed to get user history: " \o env.store.message,
                             calls, watched)
    [] toolName = "get_recommendations_from_history" ->
         IF ~ZodParses(ToolSchema(toolName), args)
         THEN Thrown(ZodError, <<>>, watched)
         ELSE IF env.store.ok
         THEN Returned([movieRecommendations |->
                          GetRecommendationsFromHistory(args.user_id.v, watched,
                                                env.getMovieRecommendations)],
                       Undefined, HistoryCalls(args.user_id.v, watched), watched)
         ELSE Thrown("Failed to get recommendations from history: "
                       \o env.store.message,
                     <<Call("getUserHistory", args.user_id.v, 0)>>, watched)
    [] toolName = "get_user_feedback" ->
         IF ~ZodParses(ToolSchema(toolName), args)
         THEN Thrown(ZodError, <<>>, watched)
         ELSE LET calls == <<Call("getUserFeedback", args.user_id.v, 0)>>
              IN IF env.store.ok
                 THEN Returned([feedback |-> <<>>], Undefined, calls, watched)
                 ELSE Thrown(env.store.message, calls, watched)
    [] OTHER ->
         Returned(NullResult, UnknownToolError(toolName), <<>>, watched)

\* the catch block of executeTool: a thrown Error becomes {result: null,
\* error: message}
CatchToolErrorRethrows(d) == d
CatchToolError(d) ==
  [d EXCEPT !.threw = FALSE, !.result = NullResult, !.error = d.message]

\* executeTool(toolName, args, userId)
executeTool(toolName, args, env, watched, now) ==
  LET d == Dispatch(toolName, args, env, watched, now)
  IN IF d.threw THEN CatchToolError(d) ELSE d

(***************************************************************************)
(* The fast path of chatWithTools: buildRecommendationResponse.            *)
(***************************************************************************)
RECURSIVE JoinStrings(_, _)
JoinStrings(items, sep) ==
  IF items = <<>> THEN ""
  ELSE IF Len(items) = 1 THEN items[1]
  ELSE items[1] \o sep \o JoinStrings(Tail(items), sep)

Quote(text) == "\"" \o text \o "\""

\* JSON.stringify of a movie list
StringifyMovies(movies) ==
  "[" \o JoinStrings([i \in 1..Len(movies) |->
                        "{\"id\":" \o ToString(movies[i].id)
                          \o ",\"title\":" \o Quote(movies[i].title)
                          \o ",\"releaseYear\":"
                          \o (IF movies[i].releaseYear = NoYear THEN "null"
                              ELSE ToString(movies[i].releaseYear))
                          \o "}"], ",")
      \o "]"

\* JSON.stringify({message, reasoning, movies})
StringifyPayload(message, reasoning, movies) ==
  "{\"message\":" \o Quote(message) \o ",\"reasoning\":" \o Quote(reasoning)
    \o ",\"movies\":" \o StringifyMovies(movies) \o "}"

\* what the collaborators answer to the calls of one fast path
FastPathEnv(yearSearch, search, details, semantic, recs, history) ==
  [yearSearch |-> yearSearch, search |-> search, details |-> details,
   semantic |-> semantic, recs |-> recs, history |-> history]

FastPathResult(threw, override, movies, source) ==
  [threw |-> threw, override |-> override, movies |-> movies,
   source |-> source]

\* m.genres.includes("Science Fiction")
IsSciFi(m) == \E i \in 1..Len(m.genres) : m.genres[i] = "Science Fiction"

\* the last user message of the loaded history that has content
LastUserContent(history) ==
  LET users == { i \in 1..Len(history) :
                   history[i].role = "user" /\ history[i].content # "" }
  IN IF users = {} THEN Null
     ELSE history[CHOOSE i \in users : \A j \in users : j <= i].content

\* the seed part of buildRecommendationResponse (seed found by the search):
\* <<threw, movies, the source that gave them>>
SeedMovies(seed, excludedTitles, env) ==
  IF ~env.details.ok THEN <<TRUE, <<>>, Null>>
  ELSE IF ~env.semantic.ok THEN <<TRUE, <<>>, Null>>
  ELSE LET requiresSciFi == IsSciFi(env.details.value)
           semanticFiltered == IF requiresSciFi
                               THEN SelectSeq(env.semantic.value, IsSciFi)
                               ELSE env.semantic.value
           semanticNoTitles ==
             filterExcludedTitles(semanticFiltered, excludedTitles)
       IN IF Len(semanticNoTitles) > 0
          THEN <<FALSE, semanticNoTitles, "semantic">>
          ELSE IF ~env.recs.ok THEN <<TRUE, <<>>, Null>>
          ELSE LET tmdbNoTitles ==
                     filterExcludedTitles(env.recs.value, excludedTitles)
               IN <<FALSE,
                    IF requiresSciFi THEN SelectSeq(tmdbNoTitles, IsSciFi)
                    ELSE tmdbNoTitles,
                    "catalog">>

\* the constraints that buildRecommendationResponse extracts from a text
Extraction(text) ==
  [excludedGenres |-> extractExcludedGenres(text),
   excludedTitles |-> extractExcludedTitles(text),
   yearConstraints |-> extractYearConstraints(text),
   seedTitle |-> extractSeedTitle(text)]

\* the texts of the model, and their constraints computed once
UserMessages ==
  {"hello there", "recommend movies like Heat", "suggest something"}
StoredTexts == {"movies like Heat", "Try Ronin."}
\* the messages given to buildRecommendationResponse on its own
MergeMessages ==
  {"recommend movies like Heat", "suggest something without horror",
   "recommend recent movies like Heat", "suggest movies before 2010",
   "recommend movies like Heat but no horror after 2000"}
ExtractionOf ==
  [text \in UserMessages \cup StoredTexts \cup MergeMessages \cup {""} |->
     Extraction(text)]
IntentOf == [text \in UserMessages \cup {""} |-> isRecommendationIntent(text)]

\* the seed title taken from the last user message of the history
SeedFromHistory(history) ==
  IF LastUserContent(history) = Null THEN Null
  ELSE ExtractionOf[LastUserContent(history)].seedTitle

\* " Excluding: ..." and " From ... onward."
ResponseNotes(excludedGenres, minYear) ==
  (IF Len(excludedGenres) > 0
   THEN " Excluding: " \o JoinStrings(excludedGenres, ", ") \o "."
   ELSE "")
  \o (IF minYear # NoYear
      THEN " From " \o ToString(minYear) \o " onward." ELSE "")

\* the end of buildRecommendationResponse: the movies of the seed, else
\* those of the history; null when there are none
RespondWith(seedTitle, seedMovies, seedSource, excludedGenres, excludedTitles, minYear, env) ==
  IF Len(seedMovies) = 0 /\ ~env.history.ok THEN FastPathResult(TRUE, Null, <<>>, Null)
  ELSE LET movies == IF Len(seedMovies) = 0
                     THEN filterExcludedTitles(env.history.value,
                                               excludedTitles)
                     ELSE seedMovies
       IN IF Len(movies) = 0 THEN FastPathResult(FALSE, Null, <<>>, Null)
          ELSE FastPathResult(FALSE,
                 StringifyPayload(
                   (IF seedTitle # Null /\ seedTitle # ""
                    THEN "Here are recommendations similar to "
                           \o seedTitle \o "."
                    ELSE "Here are recommendations based on your history.")
                   \o ResponseNotes(excludedGenres, minYear),
                   "Matched themes and applied your constraints.", movies),
                 movies,
                 IF Len(seedMovies) = 0 THEN "history" ELSE seedSource)

\* minYear after "if (yearConstraints.notAsOldAsTitle)"
ResolvedMinYear(yearConstraints, yearSearch) ==
  IF /\ yearConstraints.notAsOldAsTitle # Null
     /\ yearSearch.ok
     /\ yearSearch.value # <<>>
     /\ yearSearch.value[1].releaseYear # NoYear
  THEN yearSearch.value[1].releaseYear + 1
  ELSE yearConstraints.minYear

\* buildRecommendationResponse once the constraints are extracted
RespondTo(extracted, seedTitle, env) ==
  IF extracted.yearConstraints.notAsOldAsTitle # Null /\ ~env.yearSearch.ok
  THEN FastPathResult(TRUE, Null, <<>>, Null)
  ELSE IF seedTitle # Null /\ seedTitle # "" /\ ~env.search.ok
  THEN FastPathResult(TRUE, Null, <<>>, Null)
  ELSE LET minYear ==
             ResolvedMinYear(extracted.yearConstraints, env.yearSearch)
           seedPart ==
             IF seedTitle # Null /\ seedTitle # "" /\ env.search.value # <<>>
             THEN SeedMovies(env.search.value[1], extracted.excludedTitles,
                             env)
             ELSE <<FALSE, <<>>, Null>>
       IN IF seedPart[1] THEN FastPathResult(TRUE, Null, <<>>, Null)
          ELSE RespondWith(seedTitle, seedPart[2], seedPart[3],
                           extracted.excludedGenres,
                           extracted.excludedTitles, minYear, env)

\* seedFromMessage ?? seedFromHistory, where the history is consulted only
\* when the message gives no (non-empty) seed
SeedTitle(seedFromMessage, history) ==
  IF seedFromMessage # Null /\ seedFromMessage # "" THEN seedFromMessage
  ELSE IF seedFromMessage # Null THEN seedFromMessage
  ELSE SeedFromHistory(history)

buildRecommendationResponse(userMessage, history, userId, env) ==
  RespondTo(ExtractionOf[userMessage],
            SeedTitle(ExtractionOf[userMessage].seedTitle, history), env)

(***************************************************************************)
(* The recommendation sources behind the fast path.                        *)
(***************************************************************************)
\* { excludeGenres, minYear, maxYear }
Options(excludeGenres, minYear, maxYear) ==
  [excludeGenres |-> excludeGenres, minYear |-> minYear, maxYear |-> maxYear]
NoOptions == Options(<<>>, NoYear, NoYear)

\* a result of the TMDB endpoints: the movie with its vote_average in tenths
Rated(movie, vote) ==
  [id |-> movie.id, title |-> movie.title, releaseYear |-> movie.releaseYear,
   genres |-> movie.genres, vote |-> vote]
Unrated(item) == Movie(item.id, item.title, item.releaseYear, item.genres)

MIN_VOTE == 65
CatalogCap == 10
SemanticCap == 10

\* candidateGenres.some((g) => excludedGenres.has(g.toLowerCase()))
HasExcludedGenre(genres, excludeGenres) ==
  \E i \in 1..Len(genres), j \in 1..Len(excludeGenres) :
    ToLowerCase(genres[i]) = ToLowerCase(Trim(excludeGenres[j]))

\* the year test of the filter: with a bound set, a movie without a year is
\* dropped
YearAllowed(year, minYear, maxYear) ==
  (minYear # NoYear \/ maxYear # NoYear)
  => /\ year # NoYear
     /\ minYear # NoYear => year >= minYear
     /\ maxYear # NoYear => year <= maxYear

\* one shared genre with the seed, when the seed has genres
SharesGenre(genres, seedGenres) ==
  \/ seedGenres = <<>>
  \/ \E i \in 1..Len(genres), j \in 1..Len(seedGenres) :
       genres[i] = seedGenres[j]

\* what the catalog answers about one movie: the genres of its details and
\* the results of the endpoints "recommendations" and "similar", in order
CatalogAnswer(seedGenres, results) ==
  [seedGenres |-> seedGenres, results |-> results]

\* the filter of getMovieRecommendations
CatalogKeeps(item, seedGenres, options) ==
  /\ ~HasExcludedGenre(item.genres, options.excludeGenres)
  /\ SharesGenre(item.genres, seedGenres)
  /\ item.vote >= MIN_VOTE
  /\ YearAllowed(item.releaseYear, options.minYear, options.maxYear)

\* getMovieRecommendations(movieId, options) of the catalog client, given
\* what TMDB answers
getMovieRecommendations(answer, options) ==
  LET keep(item) == CatalogKeeps(item, answer.seedGenres, options)
      filtered == SelectSeq(uniqueById(answer.results), keep)
      cut == Slice(filtered, CatalogCap)
  IN [i \in 1..Len(cut) |-> Unrated(cut[i])]

\* the semantic recommender: the neighbours of the seed without duplicates,
\* filtered by the constraints, at most SemanticCap of them
getSemanticMovieRecommendations(neighbors, options) ==
  LET keep(item) ==
        /\ ~HasExcludedGenre(item.genres, options.excludeGenres)
        /\ YearAllowed(item.releaseYear, options.minYear, options.maxYear)
  IN Slice(SelectSeq(uniqueById(neighbors), keep), SemanticCap)

\* an awaited call that fails, or whose answer goes through f
Outcome(raw, value) == IF raw.ok THEN Returns(value) ELSE raw

(***************************************************************************)
(* JSON.parse, for the texts stored as message content.  A JSON value is   *)
(* tagged with its type; an object is the sequence of its members.         *)
(***************************************************************************)
JValue(t, v) == [t |-> t, v |-> v]
JNull == JValue("null", 0)
Member(key, value) == [key |-> key, value |-> value]

\* the outcome of parsing from a position: the value and the position after
\* it, or a SyntaxError
Parsed(value, next) == [ok |-> TRUE, value |-> value, next |-> next]
SyntaxError == [ok |-> FALSE, value |-> JNull, next |-> 0]

RECURSIVE SkipSpace(_, _)
SkipSpace(s, i) ==
  IF i <= Len(s) /\ IsSpace(CharAt(s, i)) THEN SkipSpace(s, i + 1) ELSE i

\* the position of the quote that closes a string literal, 0 without one
RECURSIVE StringEnd(_, _)
StringEnd(s, i) ==
  IF i > Len(s) \/ CharAt(s, i) = "\n" THEN 0
  ELSE IF CharAt(s, i) = "\"" THEN i
  ELSE IF CharAt(s, i) = "\\" THEN StringEnd(s, i + 2)
  ELSE StringEnd(s, i + 1)

\* the characters of a string literal, its escapes \" \\ \n resolved
RECURSIVE Unescape(_)
Unescape(s) ==
  IF Len(s) = 0 THEN ""
  ELSE IF CharAt(s, 1) = "\\" /\ Len(s) >= 2
  THEN (IF CharAt(s, 2) = "n" THEN "\n" ELSE CharAt(s, 2))
         \o Unescape(SubSeq(s, 3, Len(s)))
  ELSE CharAt(s, 1) \o Unescape(SubSeq(s, 2, Len(s)))

RECURSIVE DigitsEnd(_, _)
DigitsEnd(s, i) ==
  IF i <= Len(s) /\ CharAt(s, i) \in Digits THEN DigitsEnd(s, i + 1) ELSE i

\* an integer literal (the model's numbers are integers)
ParseNumber(s, i) ==
  LET first == IF CharAt(s, i) = "-" THEN i + 1 ELSE i
      end == DigitsEnd(s, first)
      n == ParseInt(SubSeq(s, first, end - 1))
  IN IF end = first THEN SyntaxError
     ELSE Parsed(JValue("number", IF first = i THEN n ELSE 0 - n), end)

ParseString(s, i) ==
  LET end == StringEnd(s, i + 1)
  IN IF end = 0 THEN SyntaxError
     ELSE Parsed(JValue("string", Unescape(SubSeq(s, i + 1, end - 1))),
                 end + 1)

RECURSIVE ParseValue(_, _)
RECURSIVE ParseItems(_, _, _)
RECURSIVE ParseMembers(_, _, _)

ParseValue(s, at) ==
  LET i == SkipSpace(s, at)
      c == CharAt(s, i)
      j == SkipSpace(s, i + 1)
  IN IF i > Len(s) THEN SyntaxError
     ELSE CASE c = "\"" -> ParseString(s, i)
            [] c = "{" ->
                 IF j <= Len(s) /\ CharAt(s, j) = "}"
                 THEN Parsed(JValue("object", <<>>), j + 1)
                 ELSE ParseMembers(s, j, <<>>)
            [] c = "[" ->
                 IF j <= Len(s) /\ CharAt(s, j) = "]"
                 THEN Parsed(JValue("array", <<>>), j + 1)
                 ELSE ParseItems(s, j, <<>>)
            [] c = "-" \/ c \in Digits -> ParseNumber(s, i)
            [] StartsAt(s, i, "true") -> Parsed(JValue("boolean", TRUE), i + 4)
            [] StartsAt(s, i, "false") ->
                 Parsed(JValue("boolean", FALSE), i + 5)
            [] StartsAt(s, i, "null") -> Parsed(JNull, i + 4)
            [] OTHER -> SyntaxError

\* the items of an array after "[" or ","
ParseItems(s, at, items) ==
  LET item == ParseValue(s, at)
      i == SkipSpace(s, item.next)
  IN IF ~item.ok \/ i > Len(s) THEN SyntaxError
     ELSE IF CharAt(s, i) = ","
     THEN ParseItems(s, i + 1, Append(items, item.value))
     ELSE IF CharAt(s, i) = "]"
     THEN Parsed(JValue("array", Append(items, item.value)), i + 1)
     ELSE SyntaxError

\* the members of an object after "{" or ","
ParseMembers(s, at, members) ==
  LET k == SkipSpace(s, at)
      key == IF k <= Len(s) /\ CharAt(s, k) = "\"" THEN ParseString(s, k)
             ELSE SyntaxError
      colon == SkipSpace(s, key.next)
      value == IF key.ok /\ colon <= Len(s) /\ CharAt(s, colon) = ":"
               THEN ParseValue(s, colon + 1) ELSE SyntaxError
      i == SkipSpace(s, value.next)
      all == Append(members, Member(key.value.v, value.value))
  IN IF ~value.ok \/ i > Len(s) THEN SyntaxError
     ELSE IF CharAt(s, i) = "," THEN ParseMembers(s, i + 1, all)
     ELSE IF CharAt(s, i) = "}" THEN Parsed(JValue("object", all), i + 1)
     ELSE SyntaxError

\* JSON.parse(text): the whole text is one value
JsonParse(text) ==
  LET parsed == ParseValue(text, 1)
  IN IF parsed.ok /\ SkipSpace(text, parsed.next) > Len(text) THEN parsed
     ELSE SyntaxError

(***************************************************************************)
(* The history request: assistantPayloadSchema and the transform of the    *)
(* stored messages.                                                        *)
(***************************************************************************)
Absent == JValue("undefined", 0)

\* object[key]: the last member of that name
Get(object, key) ==
  LET at == { i \in 1..Len(object.v) : object.v[i].key = key }
  IN IF at = {} THEN Absent
     ELSE object.v[CHOOSE i \in at : \A j \in at : j <= i].value

\* z.array(z.string())
IsStringArray(value) ==
  value.t = "array" /\ \A i \in 1..Len(value.v) : value.v[i].t = "string"

\* the keys of a movie of assistantPayloadSchema
MovieKeys ==
  << "id", "title", "overview", "releaseYear", "posterUrl", "genres",
     "matchConfidence" >>

MovieMatches(item) ==
  /\ item.t = "object"
  /\ Get(item, "id").t \in {"number", "string"}
  /\ Get(item, "title").t = "string"
  /\ Get(item, "overview").t \in {"string", "null", "undefined"}
  /\ Get(item, "releaseYear").t \in {"number", "null", "undefined"}
  /\ Get(item, "posterUrl").t \in {"string", "null", "undefined"}
  /\ Get(item, "genres").t = "undefined" \/ IsStringArray(Get(item, "genres"))
  /\ Get(item, "matchConfidence").t \in {"string", "undefined"}

\* what parse returns for a movie: its keys of the schema (others are
\* stripped)
StripMovie(item) ==
  LET given(member) == member.value.t # "undefined"
  IN JValue("object",
            SelectSeq([i \in 1..Len(MovieKeys) |->
                         Member(MovieKeys[i], Get(item, MovieKeys[i]))],
                      given))

\* assistantPayloadSchema.parse(json) does not throw
PayloadMatches(json) ==
  /\ json.t = "object"
  /\ Get(json, "message").t = "string"
  /\ Get(json, "movies").t \in {"undefined", "array"}
  /\ Get(json, "movies").t = "array"
     => \A i \in 1..Len(Get(json, "movies").v) :
          MovieMatches(Get(json, "movies").v[i])

\* parsed.movies, with .optional().default([])
PayloadMovies(json) ==
  IF Get(json, "movies").t = "undefined" THEN <<>>
  ELSE [i \in 1..Len(Get(json, "movies").v) |->
          StripMovie(Get(json, "movies").v[i])]

Transformed(role, content, movies) ==
  [role |-> role, content |-> content, movies |-> movies]

MessageOnly(m, parsed) == Transformed("assistant", m.content, <<>>)

\* the body of messages.map((m) => ...) for an assistant message, given
\* what JSON.parse(m.content) gives
TransformAssistant(m, parsed) ==
  IF parsed.ok /\ PayloadMatches(parsed.value)
  THEN Transformed("assistant", Get(parsed.value, "message").v,
                   PayloadMovies(parsed.value))
  ELSE Transformed("assistant", m.content, <<>>)

TransformMessage(m) ==
  IF m.role = "assistant" THEN TransformAssistant(m, JsonParse(m.content))
  ELSE Transformed(IF m.role = "user" THEN "user" ELSE "assistant",
                   m.content, <<>>)

(***************************************************************************)
(* State.                                                                  *)
(***************************************************************************)
VARIABLES
  \* the request: chatWithTools(userId, conversationId, userMessage)
  userId, conversationId, userMessage,
  \* config.openAiApiKey is set
  openAiApiKey,
  \* the stores: Conversation rows, Message rows in creation order,
  \* WatchedMovie rows, and the clock that stamps addedAt
  conversations, db, watched, now,
  \* locals of chatWithTools
  pc, convId, history, messages, debugEvents, finalResponse, iteration,
  toolCalls, toolIdx, toolResults,
  \* what the call returned: [assistantMessage, newConversationId,
  \* debugEvents], once pc is "returned"
  response,
  \* the LLM of this run: whether it reports token usage, and the tool
  \* calls it may request
  llmUsage, llmMenu,
  \* what the collaborators of executeTool may answer in this run
  toolEnvs,
  \* history of the turn, for the properties: the number of completion
  \* requests, the tool-call-free reply <<iteration, content>>, the tool
  \* calls that reached executeTool, the collaborator errors absorbed, and
  \* the outcome of the fast path
  llmRequests, directAnswer, executed, absorbed, fastPath,
  \* the last executeTool call checked on its own: its input and output
  toolRun,
  \* the last buildRecommendationResponse call checked on its own
  mergeRun,
  \* the last history request: its body and its response
  replayRun,
  \* the send-message request: its body, and the response once pc is
  \* "responded"
  chatRequest, chatResponse,
  \* two turns running on one conversation: where each turn is, and which
  \* turn wrote each row of db
  turns,
  \* the saveWatchedMovie calls made so far, in order
  saves,
  \* the Feedback rows, and the last toggleFeedback call with its result
  feedback, toggled,
  \* the last clear request of the history route, with the store before it
  cleared,
  \* one fetchWithTimeout call: its timer, its listener and its outcome
  fetches,
  \* the music catalog client: the token cache of the module and the calls
  \* in flight
  spotify,
  \* the last findMoviesWithSong call checked on its own
  songRun,
  \* the constraint extractors applied to userMessage on their own
  extractRun

vars ==
  << userId, conversationId, userMessage, openAiApiKey, conversations, db,
     watched, now, pc, convId, history, messages, debugEvents,
     finalResponse, iteration, toolCalls, toolIdx, toolResults, response,
     llmUsage, llmMenu, toolEnvs, llmRequests, directAnswer, executed, absorbed,
     fastPath, toolRun, mergeRun, replayRun, chatRequest, chatResponse,
     turns, saves, feedback, toggled, cleared, fetches, spotify, songRun,
     extractRun >>

storeVars == << conversations, db, watched, now >>
requestVars == << userId, conversationId, userMessage, openAiApiKey,
                  llmUsage, llmMenu, toolEnvs >>
\* the functions checked on their own, which a turn leaves alone
routeVars == << chatRequest, chatResponse >>
feedbackVars == << feedback, toggled >>
clientVars == << cleared, fetches, spotify, songRun, extractRun >>
otherVars == << toolRun, mergeRun, replayRun, routeVars, turns, saves,
               feedbackVars, clientVars >>

(***************************************************************************)
(* chatWithTools.                                                          *)
(***************************************************************************)
SYSTEM_PROMPT == "You are Gleni, a helpful AI assistant"
maxIterations == 5
HistoryLimit == 20
NoResponse == "I apologize, but I couldn't generate a response."
ExhaustedResponse ==
  "I apologize, but I reached the maximum number of tool calls. Please try rephrasing your question."

Message(role, content) ==
  [role |-> role, content |-> content, tool_calls |-> <<>>,
   tool_call_id |-> Null]
AssistantMessage(content, tool_calls) ==
  [role |-> "assistant", content |-> content, tool_calls |-> tool_calls,
   tool_call_id |-> Null]
ToolMessage(id, content) ==
  [role |-> "tool", content |-> content, tool_calls |-> <<>>,
   tool_call_id |-> id]

Row(conversation, role, content) ==
  [conversationId |-> conversation, role |-> role, content |-> content]

\* prisma.message.create
CreateNoMessage(rows, conversation, role, content) == rows
CreateMessage(rows, conversation, role, content) ==
  Append(rows, Row(conversation, role, content))

\* getConversationHistory(conversationId, limit = 20): findMany with
\* orderBy createdAt asc and take: limit
getConversationHistory(rows, conversation) ==
  LET ofConversation(r) == r.conversationId = conversation
                           /\ r.role \in {"user", "assistant", "system"}
      found == Slice(SelectSeq(rows, ofConversation), HistoryLimit)
  IN [i \in 1..Len(found) |-> Message(found[i].role, found[i].content)]

Event(type, id) == [type |-> type, id |-> id]

\* the while condition of the tool calling loop
LoopContinuesOnceMore(n) == n <= maxIterations
LoopContinues(n) == n < maxIterations

\* if (iteration >= maxIterations) finalResponse = <the apology>
NeverExhausted(n, final) == final
ExhaustedOverride(n, final) ==
  IF n >= maxIterations THEN ExhaustedResponse ELSE final

\* if (override): the fast path answer is used
NeverUseOverride(override) == FALSE
UseOverride(override) == override # Null /\ override # ""

\* the persistence/history pattern of the tool name
IsPersistenceTool(toolName) ==
  \/ Includes(toolName, "save")
  \/ Includes(toolName, "get_user")
  \/ Includes(toolName, "get_recommendations_from_history")

\* args.user_id = userId for the persistence tools
KeepUserId(toolName, args, user) == args
InjectUserId(toolName, args, user) ==
  IF IsPersistenceTool(toolName)
  THEN [k \in DOMAIN args \cup {"user_id"} |->
          IF k = "user_id" THEN Str(user) ELSE args[k]]
  ELSE args

\* JSON.stringify(result) and JSON.stringify({ error }) of a tool result
StringifyResult(result) ==
  IF "null" \in DOMAIN result THEN "null"
  ELSE IF "list" \in DOMAIN result THEN StringifyMovies(result.list)
  ELSE IF "success" \in DOMAIN result
  THEN "{\"success\":true,\"message\":" \o Quote(result.message) \o "}"
  ELSE IF "watchedMovies" \in DOMAIN result
  THEN "{\"watchedMovies\":["
         \o JoinStrings([i \in 1..Len(result.watchedMovies) |->
                           ToString(result.watchedMovies[i].movieId)], ",")
         \o "]}"
  ELSE IF "movieRecommendations" \in DOMAIN result
  THEN "{\"movieRecommendations\":"
         \o StringifyMovies(result.movieRecommendations) \o "}"
  ELSE IF "feedback" \in DOMAIN result THEN "{\"feedback\":[]}"
  ELSE StringifyMovies(<<result>>)
StringifyError(error) == "{\"error\":" \o Quote(error) \o "}"

\* if (error): a string that is neither undefined nor empty
IsError(error) == error # Undefined /\ error # ""

(***************************************************************************)
(* The inputs of a turn.                                                   *)
(***************************************************************************)
\* a tool call as the LLM requests it: the function name and its arguments
\* string, which parses as JSON (json) to the map args, or does not
ToolCall(name, json, args) == [name |-> name, json |-> json, args |-> args]
NoArgs == [unparsed |-> Str("{")]

ApiError == "upstream request failed"

\* collaborators that answer, that all fail, and a semantic recommender
\* that fails or finds nothing while the catalog answers
EnvAllOk ==
  ToolEnv(Returns(<<Interstellar>>), Returns(Interstellar),
          Returns(<<Arrival>>),
          <<Returns(<<BladeRunner, Heat>>), Returns(<<BladeRunner, Heat>>),
            Returns(<<Arrival>>)>>,
          Returns("ok"))
EnvAllFail ==
  ToolEnv(Throws(ApiError), Throws(ApiError), Throws(ApiError),
          <<Throws(ApiError), Throws(ApiError), Throws(ApiError)>>,
          Throws(ApiError))
EnvSemanticThrows ==
  [EnvAllOk EXCEPT !.getSemanticMovieRecommendations = Throws(ApiError)]
EnvSemanticEmpty ==
  [EnvAllOk EXCEPT !.getSemanticMovieRecommendations = Returns(<<>>)]
TurnToolEnvs == {EnvAllOk, EnvAllFail, EnvSemanticThrows, EnvSemanticEmpty}

ListOutcomes == { Returns(l) : l \in MovieLists } \cup { Throws(ApiError) }
SearchOutcomes ==
  { Returns(<<>>), Returns(<<Interstellar>>), Returns(<<Heat>>),
    Throws(ApiError) }
DetailsOutcomes ==
  { Returns(Interstellar), Returns(Heat), Throws(ApiError) }

FastPathEnvs ==
  { FastPathEnv(y, s, d, m, r, h) :
      y \in {Returns(<<Heat>>), Throws(ApiError)},
      s \in SearchOutcomes, d \in DetailsOutcomes,
      m \in ListOutcomes, r \in ListOutcomes, h \in ListOutcomes }

\* the tool calls of a reply: 1..MaxCalls calls of the menu, as long as the
\* turn stays within MaxTurnCalls
RequestedCalls(context) ==
  Cardinality({ p \in (1..Len(context)) \X (1..MaxCalls) :
                  p[2] <= Len(context[p[1]].tool_calls) })

CallId(n, i) == "call_" \o ToString(n) \o "_" \o ToString(i)

ReplyCalls(menu, context, n) ==
  LET room == MaxTurnCalls - RequestedCalls(context)
      most == IF room < MaxCalls THEN room ELSE MaxCalls
  IN UNION { { [i \in 1..k |-> [id |-> CallId(n, i), name |-> f[i].name,
                                json |-> f[i].json, args |-> f[i].args]] :
                 f \in [1..k -> menu] } : k \in 1..most }

\* what a completion request may come back with
LLMOutcome(kind, content, tool_calls) ==
  [kind |-> kind, content |-> content, tool_calls |-> tool_calls]
LLMOutcomes(menu, context, n) ==
  { LLMOutcome("throw", Null, <<>>), LLMOutcome("nomessage", Null, <<>>),
    LLMOutcome("reply", Null, <<>>),
    LLMOutcome("reply", "Here is my answer.", <<>>) }
  \cup { LLMOutcome("reply", Null, calls) :
           calls \in ReplyCalls(menu, context, n) }

(***************************************************************************)
(* Initial states.                                                         *)
(***************************************************************************)
InitialConversations == { [id |-> "c1", userId |-> "u1"] }
InitialMessages ==
  << Row("c1", "user", "movies like Heat"),
     Row("c1", "assistant", "Try Ronin.") >>
InitialWatched ==
  { [userId |-> "u1", movieId |-> 42, movieTitle |-> "Interstellar",
     addedAt |-> 1] }
InitialClock == 2

NoToolRun == [name |-> Null]
NoMergeRun == [text |-> Null]
NoFastPath == [wants |-> FALSE, threw |-> FALSE, override |-> Null]
NoDirectAnswer == <<0, Null>>

NoReplayRun == [request |-> Null]
NoChatRequest == [json |-> FALSE, fields |-> [k \in {} |-> Null]]
NoChatResponse == [status |-> 0]
TurnIds == {1, 2}
IdleTurn ==
  [pc |-> "idle", userMessage |-> Null, history |-> <<>>,
   finalResponse |-> Null]
NoTurns == [of |-> [t \in TurnIds |-> IdleTurn], writers |-> <<>>]
NoToggle == [userId |-> Null]
NoClear == [userId |-> Null]
NoFetch == [pc |-> "idle"]
NoSpotify == [configured |-> FALSE]
NoSongRun == [song |-> Null]
NoExtractRun == [message |-> Null]

\* no turn has started: the locals of chatWithTools and the records of the
\* properties are empty
InitLocals(at) ==
  /\ pc = at
  /\ convId = Null
  /\ history = <<>>
  /\ messages = <<>>
  /\ debugEvents = <<>>
  /\ finalResponse = ""
  /\ iteration = 0
  /\ toolCalls = <<>>
  /\ toolIdx = 0
  /\ toolResults = <<>>
  /\ response = [assistantMessage |-> Null, newConversationId |-> Null,
                 debugEvents |-> <<>>]
  /\ llmRequests = 0
  /\ directAnswer = NoDirectAnswer
  /\ executed = <<>>
  /\ absorbed = <<>>
  /\ fastPath = NoFastPath
  /\ toolRun = NoToolRun
  /\ mergeRun = NoMergeRun
  /\ replayRun = NoReplayRun
  /\ chatResponse = NoChatResponse
  /\ turns = NoTurns
  /\ saves = <<>>
  /\ toggled = NoToggle
  /\ cleared = NoClear
  /\ songRun = NoSongRun
  /\ extractRun = NoExtractRun

\* the same, with no feedback stored and the outbound clients at rest
InitTurn(at) ==
  /\ InitLocals(at)
  /\ feedback = {}
  /\ fetches = NoFetch
  /\ spotify = NoSpotify

\* the LLM and the collaborators of the run
InitWorld(keys, usages, menu, envs) ==
  /\ openAiApiKey \in keys
  /\ llmUsage \in usages
  /\ llmMenu = menu
  /\ toolEnvs = envs

InitWith(users, conversationIds, userMessages, keys, usages, menu, envs, stores, at) ==
  /\ userId \in users
  /\ conversationId \in conversationIds
  /\ userMessage \in userMessages
  /\ chatRequest = NoChatRequest
  /\ InitWorld(keys, usages, menu, envs)
  /\ conversations = InitialConversations
  /\ db = InitialMessages
  /\ watched \in stores
  /\ now = InitialClock
  /\ InitTurn(at)

(***************************************************************************)
(* The steps of chatWithTools, one per awaited call.                       *)
(***************************************************************************)
turnLocals == << convId, history, messages, debugEvents, finalResponse,
                 iteration, toolCalls, toolIdx, toolResults, response >>
turnHistory == << llmRequests, directAnswer, executed, absorbed, fastPath >>

FreshConversationId == "c" \o ToString(Cardinality(conversations) + 1)

\* ensureServerEnv, the OPENAI_API_KEY check, and "get or create
\* conversation"
Start ==
  /\ pc = "start"
  /\ IF ~openAiApiKey
     THEN /\ pc' = "threw"
          /\ UNCHANGED << convId, conversations >>
     ELSE IF conversationId = Null
     THEN /\ convId' = FreshConversationId
          /\ conversations' = conversations \cup
               { [id |-> FreshConversationId, userId |-> userId] }
          /\ pc' = "save_user"
     ELSE /\ convId' = conversationId
          /\ pc' = "save_user"
          /\ UNCHANGED conversations
  /\ UNCHANGED << requestVars, db, watched, now, history, messages,
                  debugEvents, finalResponse, iteration, toolCalls, toolIdx,
                  toolResults, response, turnHistory, otherVars >>

\* "save user message": the row needs an existing conversation
\* (Message_conversationId_fkey)
SaveUserMessage ==
  /\ pc = "save_user"
  /\ IF \E c \in conversations : c.id = convId
     THEN /\ db' = CreateMessage(db, convId, "user", userMessage)
          /\ pc' = "load_history"
     ELSE /\ pc' = "threw"
          /\ UNCHANGED db
  /\ UNCHANGED << requestVars, conversations, watched, now, turnLocals,
                  turnHistory, otherVars >>

\* "get conversation history" and "build messages array for OpenAI"
LoadHistory ==
  /\ pc = "load_history"
  /\ history' = getConversationHistory(db, convId)
  /\ messages' = <<Message("system", SYSTEM_PROMPT)>>
                   \o getConversationHistory(db, convId)
                   \o <<Message("user", userMessage)>>
  /\ pc' = "fast_path"
  /\ UNCHANGED << requestVars, storeVars, convId, debugEvents,
                  finalResponse, iteration, toolCalls, toolIdx, toolResults,
                  response, turnHistory, otherVars >>

\* if (wantsRecommendations) override = await buildRecommendationResponse
FastPathTaken(r) ==
  /\ fastPath' = [wants |-> TRUE, threw |-> r.threw, override |-> r.override]
  /\ pc' = IF r.threw THEN "threw"
           ELSE IF UseOverride(r.override) THEN "persist_override"
           ELSE "loop"

FastPath ==
  /\ pc = "fast_path"
  /\ IF IntentOf[userMessage]
     THEN \E env \in FastPathEnvs :
            FastPathTaken(buildRecommendationResponse(userMessage, history,
                                                      userId, env))
     ELSE /\ fastPath' = NoFastPath
          /\ pc' = "loop"
  /\ UNCHANGED << requestVars, storeVars, turnLocals, llmRequests,
                  directAnswer, executed, absorbed, otherVars >>

\* the fast path answer is saved and returned
PersistOverride ==
  /\ pc = "persist_override"
  /\ db' = CreateMessage(db, convId, "assistant", fastPath.override)
  /\ response' = [assistantMessage |-> fastPath.override,
                  newConversationId |-> convId,
                  debugEvents |-> debugEvents]
  /\ pc' = "returned"
  /\ UNCHANGED << requestVars, conversations, watched, now, convId, history,
                  messages, debugEvents, finalResponse, iteration, toolCalls,
                  toolIdx, toolResults, turnHistory, otherVars >>

\* one iteration of the loop up to the tool calls: the completion request
LLMRequest ==
  /\ pc = "loop"
  /\ LoopContinues(iteration)
  /\ iteration' = iteration + 1
  /\ llmRequests' = llmRequests + 1
  /\ \E out \in LLMOutcomes(llmMenu, messages, iteration + 1) :
       LET tokens == IF llmUsage
                     THEN <<Event("tokens", ToString(iteration + 1))>>
                     ELSE <<>>
           content == IF out.content = Null THEN "" ELSE out.content
       IN IF out.kind = "throw"
          THEN /\ pc' = "threw"
               /\ UNCHANGED << messages, debugEvents, finalResponse,
                               toolCalls, toolIdx, toolResults,
                               directAnswer >>
          ELSE IF out.kind = "nomessage"
          THEN /\ pc' = "threw"
               /\ debugEvents' = debugEvents \o tokens
               /\ UNCHANGED << messages, finalResponse, toolCalls, toolIdx,
                               toolResults, directAnswer >>
          ELSE /\ debugEvents' = debugEvents \o tokens
               /\ messages' = Append(messages,
                                AssistantMessage(content, out.tool_calls))
               /\ IF Len(out.tool_calls) = 0
                  THEN /\ finalResponse' = IF content # "" THEN content
                                           ELSE NoResponse
                       /\ directAnswer' = <<iteration + 1, content>>
                       /\ pc' = "finish"
                       /\ UNCHANGED << toolCalls, toolIdx, toolResults >>
                  ELSE /\ toolCalls' = out.tool_calls
                       /\ toolIdx' = 1
                       /\ toolResults' = <<>>
                       /\ pc' = "tools"
                       /\ UNCHANGED << finalResponse, directAnswer >>
  /\ UNCHANGED << requestVars, storeVars, convId, history, response,
                  executed, absorbed, fastPath, otherVars >>

\* the semantic recommender threw and the catch block of the compound tool
\* answered with the catalog recommendations
SemanticFailureAbsorbed(toolName, args, env, out) ==
  /\ toolName = "get_semantic_movie_recommendations"
  /\ ZodParses([movie_id |-> "number"], args)
  /\ env.getMovieDetails.ok
  /\ ~env.getSemanticMovieRecommendations.ok
  /\ ~out.threw /\ ~IsError(out.error)

\* the body of "for (const toolCall of choice.message.tool_calls)"
ExecuteToolCall ==
  /\ pc = "tools"
  /\ toolIdx <= Len(toolCalls)
  /\ LET toolCall == toolCalls[toolIdx]
         toolName == toolCall.name
         next == IF toolIdx + 1 > Len(toolCalls) THEN "attach" ELSE "tools"
     IN IF ~toolCall.json
        THEN \* JSON.parse throws: the call is skipped
             /\ debugEvents' = Append(debugEvents, Event("tool_error", Null))
             /\ absorbed' = Append(absorbed,
                              [kind |-> "parse", id |-> toolCall.id])
             /\ toolIdx' = toolIdx + 1
             /\ pc' = next
             /\ UNCHANGED << toolResults, executed, watched, now >>
        ELSE \E env \in toolEnvs :
               LET args == InjectUserId(toolName, toolCall.args, userId)
                   out == executeTool(toolName, args, env, watched, now)
                   called == Event("tool_call:" \o toolName, toolCall.id)
               IN /\ executed' = Append(executed,
                                   [id |-> toolCall.id, name |-> toolName,
                                    args |-> args, calls |-> out.calls,
                                    error |-> out.error])
                  /\ watched' = out.watched
                  /\ now' = now + 1
                  /\ toolIdx' = toolIdx + 1
                  /\ IF out.threw
                     THEN /\ pc' = "threw"
                          /\ debugEvents' = Append(debugEvents, called)
                          /\ UNCHANGED << toolResults, absorbed >>
                     ELSE IF IsError(out.error)
                     THEN /\ debugEvents' = debugEvents \o
                               <<called, Event("tool_error", toolCall.id)>>
                          /\ toolResults' = Append(toolResults,
                               ToolMessage(toolCall.id,
                                           StringifyError(out.error)))
                          /\ absorbed' = Append(absorbed,
                               [kind |-> "tool_error", id |-> toolCall.id])
                          /\ pc' = next
                     ELSE /\ debugEvents' = debugEvents \o
                               <<called, Event("tool_success:" \o toolName,
                                               toolCall.id)>>
                          /\ toolResults' = Append(toolResults,
                               ToolMessage(toolCall.id,
                                           StringifyResult(out.result)))
                          /\ absorbed' =
                               IF SemanticFailureAbsorbed(toolName, args,
                                                          env, out)
                               THEN Append(absorbed,
                                      [kind |-> "semantic_fallback",
                                       id |-> toolCall.id])
                               ELSE absorbed
                          /\ pc' = next
  /\ UNCHANGED << requestVars, conversations, db, convId, history, messages,
                  finalResponse, iteration, toolCalls, response, llmRequests,
                  directAnswer, fastPath, otherVars >>

\* messages.push(...toolResults)
AttachToolResults ==
  /\ pc = "attach"
  /\ messages' = messages \o toolResults
  /\ pc' = "loop"
  /\ UNCHANGED << requestVars, storeVars, convId, history, debugEvents,
                  finalResponse, iteration, toolCalls, toolIdx, toolResults,
                  response, turnHistory, otherVars >>

\* after the loop: the exhaustion message, "save assistant message", return
Finish ==
  /\ \/ pc = "finish"
     \/ pc = "loop" /\ ~LoopContinues(iteration)
  /\ LET final == ExhaustedOverride(iteration, finalResponse)
     IN /\ finalResponse' = final
        /\ db' = CreateMessage(db, convId, "assistant", final)
        /\ response' = [assistantMessage |-> final,
                        newConversationId |-> convId,
                        debugEvents |-> debugEvents]
  /\ pc' = "returned"
  /\ UNCHANGED << requestVars, conversations, watched, now, convId, history,
                  messages, debugEvents, iteration, toolCalls, toolIdx,
                  toolResults, turnHistory, otherVars >>

Next ==
  \/ Start
  \/ SaveUserMessage
  \/ LoadHistory
  \/ FastPath
  \/ PersistOverride
  \/ LLMRequest
  \/ ExecuteToolCall
  \/ AttachToolResults
  \/ Finish

(***************************************************************************)
(* Specifications of a turn.  They differ in the tool calls the LLM may    *)
(* request.                                                                *)
(***************************************************************************)
SearchCall == ToolCall("search_movies", TRUE, [query |-> Str("Heat")])
MalformedCall == ToolCall("search_movies", FALSE, NoArgs)
SemanticCall ==
  ToolCall("get_semantic_movie_recommendations", TRUE, [movie_id |-> Num(42)])

Init ==
  InitWith(Users, {Null, "c1", "c9"}, UserMessages, BOOLEAN, BOOLEAN,
           {SearchCall}, TurnToolEnvs, {InitialWatched}, "start")

Spec == Init /\ [][Next]_vars

\* a turn whose LLM requests the compound tool, or a call whose arguments do
\* not parse
InitTools ==
  InitWith({"u1"}, {"c1"}, {"hello there", "recommend movies like Heat"},
           {TRUE}, {FALSE}, {SemanticCall, MalformedCall},
           {EnvSemanticThrows, EnvAllFail}, {InitialWatched}, "start")

SpecTools == InitTools /\ [][Next]_vars

\* a turn whose LLM requests persistence tools for the user "u2", or for no
\* user at all
SaveCall ==
  ToolCall("save_watched_movie", TRUE,
           [movie_id |-> Num(7), movie_title |-> Str("Blade Runner 2049"),
            user_id |-> Str("u2")])
HistoryCall == ToolCall("get_user_history", TRUE, [user_id |-> Str("u2")])
HistoryRecsCall ==
  ToolCall("get_recommendations_from_history", TRUE, [limit |-> Num(3)])

InitUser ==
  InitWith(Users, {Null}, {"hello there", "recommend movies like Heat"},
           {TRUE}, {FALSE}, {SaveCall, HistoryCall, HistoryRecsCall},
           {EnvAllOk}, {InitialWatched}, "start")

SpecUser == InitUser /\ [][Next]_vars

(***************************************************************************)
(* executeTool on its own: one call on a store, for every tool name,       *)
(* argument map and answer of the collaborators.                           *)
(***************************************************************************)
ExecNames == KnownTools \cup {"drop_history"}

EmptyArgs == [k \in {} |-> Null]
ExecArgs ==
  { EmptyArgs,
    [movie_id |-> Num(42)], [movie_id |-> Str("42")],
    [query |-> Str("Heat")], [user_id |-> Str("u1")],
    [movie_id |-> Num(7), movie_title |-> Str("Blade Runner 2049"),
     user_id |-> Str("u2")] }

ExecRecs ==
  { <<Returns(<<BladeRunner, Heat>>), Returns(<<BladeRunner, Heat>>),
      Returns(<<BladeRunner, Heat>>)>>,
    <<Throws(ApiError), Returns(<<Arrival>>), Returns(<<BladeRunner, Heat>>)>>,
    <<Throws(ApiError), Throws(ApiError), Throws(ApiError)>> }

ExecEnvs ==
  { ToolEnv(s, d, m, r, st) :
      s \in {Returns(<<Interstellar>>), Throws(ApiError)},
      d \in {Returns(Interstellar), Throws(ApiError)},
      m \in {Returns(<<Arrival>>), Returns(<<>>), Throws(ApiError)},
      r \in ExecRecs,
      st \in {Returns("ok"), Throws(ApiError)} }

ExecStores ==
  { {}, InitialWatched,
    InitialWatched \cup
      { [userId |-> "u2", movieId |-> 7, movieTitle |-> "Blade Runner 2049",
         addedAt |-> 1] } }

InitExec ==
  InitWith({"u1"}, {Null}, {"hello there"}, {TRUE}, {FALSE}, {}, {},
           ExecStores, "exec")

\* const { result, error } = await executeTool(toolName, args, userId)
RunToolWith(toolName, args, env, out) ==
  /\ toolRun' = [name |-> toolName, args |-> args, env |-> env, out |-> out,
                 before |-> watched]
  /\ watched' = out.watched

RunTool ==
  /\ pc = "exec"
  /\ toolRun = NoToolRun
  /\ \E toolName \in ExecNames, args \in ExecArgs, env \in ExecEnvs :
       RunToolWith(toolName, args, env,
                   executeTool(toolName, args, env, watched, now))
  /\ now' = now + 1
  /\ UNCHANGED << requestVars, conversations, db, pc, turnLocals,
                  turnHistory, mergeRun, replayRun, routeVars, turns, saves,
                  feedbackVars, clientVars >>

SpecExec == InitExec /\ [][RunTool]_vars

(***************************************************************************)
(* buildRecommendationResponse on its own, with the sources computed from  *)
(* what TMDB, the vector index and the store answer.                       *)
(***************************************************************************)
\* the candidates of the catalog: all are crime movies, some are horror or
\* science fiction as well, some have no release date, one has a low vote
CandidateGenres(n) ==
  IF n % 4 = 0 THEN <<"Crime", "Horror">>
  ELSE IF n % 4 = 2 THEN <<"Science Fiction", "Crime">>
  ELSE <<"Crime">>
Candidate(n) ==
  Rated(Movie(100 + n, "Film " \o ToString(n),
              IF n % 6 = 5 THEN NoYear ELSE 1994 + 2 * n,
              CandidateGenres(n)),
        IF n = 7 THEN 50 ELSE 70)
Candidates(ns) == [i \in 1..Len(ns) |-> Candidate(ns[i])]

MaxCandidates == 16
ManyResults == [i \in 1..MaxCandidates |-> Candidate(i)]
RepeatedResults == Candidates(<<1, 4, 1, 5, 4, 9>>)
FewResults == Candidates(<<4, 5>>)

ThreeWatched ==
  { [userId |-> "u1", movieId |-> 8, movieTitle |-> "Heat", addedAt |-> 1],
    [userId |-> "u1", movieId |-> 42, movieTitle |-> "Interstellar",
     addedAt |-> 2],
    [userId |-> "u1", movieId |-> 7, movieTitle |-> "Blade Runner 2049",
     addedAt |-> 3] }

MergeWorld(search, details, neighbors, catalog, recent, store) ==
  [yearSearch |-> Returns(<<Heat>>), search |-> search, details |-> details,
   neighbors |-> neighbors, catalog |-> catalog, recent |-> recent,
   store |-> store]

RecentAnswers ==
  { << Returns(CatalogAnswer(<<"Crime">>, ManyResults)),
       Returns(CatalogAnswer(<<>>, RepeatedResults)),
       Throws(ApiError) >>,
    << Returns(CatalogAnswer(<<"Crime">>, RepeatedResults)),
       Returns(CatalogAnswer(<<"Crime">>, FewResults)),
       Returns(CatalogAnswer(<<"Science Fiction">>, ManyResults)) >>,
    << Throws(ApiError), Throws(ApiError), Throws(ApiError) >> }

MergeWorlds ==
  { MergeWorld(s, d, n, c, r, st) :
      s \in {Returns(<<Heat>>), Returns(<<>>)},
      d \in {Returns(Heat), Returns(Interstellar)},
      n \in {Returns(<<>>), Returns(ManyResults), Returns(RepeatedResults),
             Throws(ApiError)},
      c \in {Returns(CatalogAnswer(<<"Crime">>, ManyResults)),
             Returns(CatalogAnswer(<<"Crime">>, RepeatedResults)),
             Returns(CatalogAnswer(<<"Crime">>, <<>>))},
      r \in RecentAnswers,
      st \in {Returns("ok"), Throws(ApiError)} }

\* what getMovieRecommendations(m.movieId) answers for the recent movies
RecentRecs(recent) ==
  [i \in 1..Len(recent) |->
     Outcome(recent[i], getMovieRecommendations(recent[i].value, NoOptions))]

\* the sources as buildRecommendationResponse calls them
MergeSources(world, options, user, rows) ==
  FastPathEnv(world.yearSearch, world.search, world.details,
    Outcome(world.neighbors,
            getSemanticMovieRecommendations(world.neighbors.value, options)),
    Outcome(world.catalog,
            getMovieRecommendations(world.catalog.value, options)),
    Outcome(world.store,
            GetRecommendationsFromHistory(user, rows,
                                          RecentRecs(world.recent))))

MergeOptions(extracted, world) ==
  Options(extracted.excludedGenres,
          ResolvedMinYear(extracted.yearConstraints, world.yearSearch),
          extracted.yearConstraints.maxYear)

InitMerge ==
  InitWith({"u1"}, {Null}, {"hello there"}, {TRUE}, {FALSE}, {}, {},
           {{}, InitialWatched, ThreeWatched}, "merge")

MergeRun(text, world, options, sources, out) ==
  [text |-> text, world |-> world, options |-> options, sources |-> sources,
   out |-> out]

RunMergeWith(text, world, options, sources) ==
  mergeRun' = MergeRun(text, world, options, sources,
                buildRecommendationResponse(text, history, userId, sources))

\* override = await buildRecommendationResponse(userMessage, history, userId)
RunMerge ==
  /\ pc = "merge"
  /\ mergeRun = NoMergeRun
  /\ \E text \in MergeMessages, world \in MergeWorlds :
       RunMergeWith(text, world, MergeOptions(ExtractionOf[text], world),
         MergeSources(world, MergeOptions(ExtractionOf[text], world),
                      userId, watched))
  /\ UNCHANGED << requestVars, storeVars, pc, turnLocals, turnHistory,
                  toolRun, replayRun, routeVars, turns, saves, feedbackVars,
                  clientVars >>

SpecMerge == InitMerge /\ [][RunMerge]_vars

(***************************************************************************)
(* The history request on its own, over stored conversations.              *)
(***************************************************************************)
HttpResponse(status, body) == [status |-> status, body |-> body]

\* the number in a conversation id: conversations are created in that order
ConversationIndex(id) == ParseInt(SubSeq(id, 2, Len(id)))

\* findUnique({id}) with a conversation id, else the latest conversation of
\* the user; the empty set when there is none
FindConversation(convs, user, conversation) ==
  IF conversation # Null
  THEN { c \in convs : c.id = conversation }
  ELSE { c \in convs :
           /\ c.userId = user
           /\ \A d \in convs :
                d.userId = user
                => ConversationIndex(d.id) <= ConversationIndex(c.id) }

\* messages of the conversation in creation order, transformed
TransformedMessages(rows, conversation) ==
  LET own == SelectSeq(rows, LAMBDA m : m.conversationId = conversation)
  IN [i \in 1..Len(own) |-> TransformMessage(own[i])]

\* POST of app/api/history/route.ts; user is "" for a body without a valid
\* userId
PostHistory(user, conversation, convs, rows) ==
  IF user = "" THEN HttpResponse(400, [error |-> "Invalid request body"])
  ELSE IF FindConversation(convs, user, conversation) = {}
  THEN HttpResponse(200, [conversationId |-> Null, messages |-> <<>>])
  ELSE LET found == CHOOSE c \in FindConversation(convs, user, conversation) :
                      TRUE
       IN HttpResponse(200, [conversationId |-> found.id,
                             messages |-> TransformedMessages(rows, found.id)])

\* stored assistant contents that are payloads of the schema, with the
\* message and the movies they hold
Payload(text, message, movies) ==
  [text |-> text, message |-> message, movies |-> movies]
JStr(s) == JValue("string", s)
JNum(n) == JValue("number", n)
JMovie(movie) ==
  JValue("object",
         << Member("id", JNum(movie.id)), Member("title", JStr(movie.title)),
            Member("releaseYear", IF movie.releaseYear = NoYear THEN JNull
                                  ELSE JNum(movie.releaseYear)) >>)
FastPathPayload(message, movies) ==
  Payload(StringifyPayload(message, "Matched themes and applied your constraints.", movies),
          message, [i \in 1..Len(movies) |-> JMovie(movies[i])])

StoredPayloads ==
  { FastPathPayload("Here are recommendations similar to Heat.",
                    <<BladeRunner, Heat>>),
    FastPathPayload("Here are recommendations based on your history.",
                    <<Movie(5, "Film 5", NoYear, <<"Crime">>)>>),
    Payload("{\"message\":\"Hi\"}", "Hi", <<>>),
    Payload("{ \"movies\" : [ ] , \"message\" : \"Hi\" }", "Hi", <<>>),
    Payload("{\"message\":\"\",\"movies\":[{\"id\":\"tt1\",\"title\":\"Ronin\",\"genres\":[\"Crime\"],\"score\":7}]}",
            "",
            << JValue("object",
                 << Member("id", JStr("tt1")), Member("title", JStr("Ronin")),
                    Member("genres", JValue("array", <<JStr("Crime")>>)) >>) >>)
  }

\* stored assistant contents that are not JSON, or not of the schema
StoredTextsOnly ==
  { "Here is my answer.", "", "\"Hi\"", "42", "[1, 2]", "null",
    "{\"message\":\"Hi\"", "{\"message\":7}", "{\"movies\":[]}",
    "{\"message\":\"Hi\",\"movies\":null}",
    "{\"message\":\"Hi\",\"movies\":[{\"title\":\"Ronin\"}]}",
    "{\"message\":\"Hi\",\"movies\":[{\"id\":1,\"title\":\"Ronin\",\"releaseYear\":\"1998\"}]}" }

StoredContents == { p.text : p \in StoredPayloads } \cup StoredTextsOnly

\* stored conversations of "u1": a user message and an assistant message,
\* or two assistant messages
ReplayStores ==
  { << Row("c1", "user", u), Row("c1", "assistant", a) >> :
      u \in {"hello there", "{\"message\":\"Hi\"}"}, a \in StoredContents }
  \cup { << Row("c1", "assistant", a), Row("c2", "assistant", b),
            Row("c1", "system", b) >> :
           a \in {"Here is my answer.", "{\"message\":\"Hi\"}"},
           b \in StoredContents }

InitReplay ==
  /\ userId = "u1"
  /\ conversationId = Null
  /\ userMessage = "hello there"
  /\ chatRequest = NoChatRequest
  /\ InitWorld({TRUE}, {FALSE}, {}, {})
  /\ conversations = InitialConversations \cup {[id |-> "c2", userId |-> "u1"]}
  /\ db \in ReplayStores
  /\ watched = InitialWatched
  /\ now = InitialClock
  /\ InitTurn("history")

RunReplay ==
  /\ pc = "history"
  /\ replayRun = NoReplayRun
  /\ \E user \in Users \cup {""}, conversation \in {Null, "c1", "c9"} :
       replayRun' = [request |-> [userId |-> user,
                                  conversationId |-> conversation],
                     response |-> PostHistory(user, conversation,
                                              conversations, db)]
  /\ UNCHANGED << requestVars, storeVars, pc, turnLocals, turnHistory,
                  toolRun, mergeRun, routeVars, turns, saves, feedbackVars,
                  clientVars >>

SpecReplay == InitReplay /\ [][RunReplay]_vars

(***************************************************************************)
(* The send-message request: POST of app/api/chat/route.ts around a turn.  *)
(***************************************************************************)
\* the body of a request: whether req.json() parsed it, and its fields
ChatBody(json, fields) == [json |-> json, fields |-> fields]

IsString(fields, key) == key \in DOMAIN fields /\ fields[key].t = "string"

\* chatRequestSchema.safeParse(json).success
chatRequestSchemaAnyLength(body) ==
  /\ body.json
  /\ IsString(body.fields, "userId")
  /\ IsString(body.fields, "message")
  /\ "conversationId" \in DOMAIN body.fields
     => IsString(body.fields, "conversationId")
chatRequestSchema(body) ==
  /\ body.json
  /\ IsString(body.fields, "userId") /\ Len(body.fields.userId.v) >= 1
  /\ IsString(body.fields, "message") /\ Len(body.fields.message.v) >= 1
  /\ "conversationId" \in DOMAIN body.fields
     => IsString(body.fields, "conversationId")

InvalidChatBodies ==
  { ChatBody(FALSE, [k \in {} |-> Null]),
    ChatBody(TRUE, [k \in {} |-> Null]),
    ChatBody(TRUE, [message |-> Str("hello there")]),
    ChatBody(TRUE, [userId |-> Str("u1")]),
    ChatBody(TRUE, [userId |-> Str(""), message |-> Str("hello there")]),
    ChatBody(TRUE, [userId |-> Str("u1"), message |-> Str("")]),
    ChatBody(TRUE, [userId |-> Num(1), message |-> Str("hello there")]),
    ChatBody(TRUE, [userId |-> Str("u1"), message |-> Num(0)]),
    ChatBody(TRUE, [userId |-> Str("u1"), message |-> Str("hello there"),
                    conversationId |-> Num(1)]) }

RouteMessages == {"hello there", "recommend movies like Heat"}
ValidChatBodies ==
  { ChatBody(TRUE, [userId |-> Str("u1"), message |-> Str(m)]) :
      m \in RouteMessages }
  \cup { ChatBody(TRUE, [userId |-> Str("u1"), message |-> Str(m),
                         conversationId |-> Str("c1")]) :
           m \in RouteMessages }

InitRoute ==
  /\ userId = Null
  /\ conversationId = Null
  /\ userMessage = Null
  /\ chatRequest \in InvalidChatBodies \cup ValidChatBodies
  /\ InitWorld(BOOLEAN, {FALSE}, {SearchCall}, {EnvAllOk})
  /\ conversations = InitialConversations
  /\ db = InitialMessages
  /\ watched = InitialWatched
  /\ now = InitialClock
  /\ InitTurn("request")

\* POST up to the call of chatWithTools
PostChat ==
  /\ pc = "request"
  /\ IF chatRequestSchema(chatRequest)
     THEN /\ userId' = chatRequest.fields.userId.v
          /\ userMessage' = chatRequest.fields.message.v
          /\ conversationId' =
               IF "conversationId" \in DOMAIN chatRequest.fields
               THEN chatRequest.fields.conversationId.v ELSE Null
          /\ pc' = "start"
          /\ UNCHANGED chatResponse
     ELSE /\ chatResponse' =
               HttpResponse(400, [error |-> "Invalid request body"])
          /\ pc' = "responded"
          /\ UNCHANGED << userId, userMessage, conversationId >>
  /\ UNCHANGED << openAiApiKey, llmUsage, llmMenu, toolEnvs, storeVars,
                  turnLocals, turnHistory, toolRun, mergeRun, replayRun,
                  chatRequest, turns, saves, feedbackVars, clientVars >>

\* POST after chatWithTools returned or threw
RespondChat ==
  /\ pc \in {"returned", "threw"}
  /\ chatResponse' =
       IF pc = "returned"
       THEN HttpResponse(200,
              [assistantMessage |-> [message |-> response.assistantMessage,
                                     type |-> "info"],
               conversationId |-> response.newConversationId,
               debugEvents |-> response.debugEvents])
       ELSE HttpResponse(500,
              [assistantMessage |->
                 [message |-> "I apologize, but I encountered an error. Please check your API keys and try again.",
                  type |-> "error"],
               conversationId |-> Null,
               debugEvents |-> <<Event("error", Null)>>])
  /\ pc' = "responded"
  /\ UNCHANGED << requestVars, storeVars, turnLocals, turnHistory, toolRun,
                  mergeRun, replayRun, chatRequest, turns, saves,
                  feedbackVars, clientVars >>

NextRoute ==
  \/ PostChat
  \/ Next
  \/ RespondChat

SpecRoute == InitRoute /\ [][NextRoute]_vars

(***************************************************************************)
(* Vocabulary of the properties.                                           *)
(***************************************************************************)
Done == pc \in {"returned", "threw"}

\* the row persisted last
LastRow == db[Len(db)]

\* the replies of this turn that requested tool calls
ToolReplies ==
  Cardinality({ i \in 1..Len(messages) : messages[i].tool_calls # <<>> })

\* the events of a trace whose type starts with the given prefix
EventsOf(events, prefix) ==
  Cardinality({ i \in 1..Len(events) : StartsAt(events[i].type, 1, prefix) })

\* how far a turn is: the iteration, and the place within the iteration
PcRank ==
  CASE pc = "start" -> 0
    [] pc = "save_user" -> 1
    [] pc = "load_history" -> 2
    [] pc = "fast_path" -> 3
    [] pc = "persist_override" -> 4
    [] pc = "tools" -> 4 + toolIdx
    [] pc = "attach" -> 6 + MaxCalls
    [] pc = "loop" -> 7 + MaxCalls
    [] pc = "finish" -> 8 + MaxCalls
    [] OTHER -> 9 + MaxCalls
TurnMeasure == iteration * (10 + MaxCalls) + PcRank

(***************************************************************************)
(* C1.  A turn issues at most 5 completion requests and runs at most 5     *)
(* iterations of the loop, and it ends when every awaited call returns or  *)
(* throws: as long as chatWithTools has neither returned nor thrown it has *)
(* a step to take, and every step takes the turn further, whatever tool    *)
(* calls the replies request.                                              *)
(***************************************************************************)
C1_AtMostFiveRequests ==
  /\ [](/\ llmRequests <= 5
        /\ iteration <= 5
        /\ Done \/ ENABLED Next)
  /\ [][TurnMeasure' > TurnMeasure]_vars

\* a turn that used the five requests and returned
C1_FiveRequestsMade == pc = "returned" /\ llmRequests = 5 /\ iteration = 5

(***************************************************************************)
(* C2.  A reply of iteration k in 1..5 without tool calls and with         *)
(* non-empty content is the assistant message that the turn returns and    *)
(* persists.                                                               *)
(***************************************************************************)
C2_DirectAnswerReturned ==
  (/\ pc = "returned"
   /\ directAnswer[1] \in 1..5
   /\ directAnswer[2] # "")
  => /\ response.assistantMessage = directAnswer[2]
     /\ LastRow = Row(convId, "assistant", directAnswer[2])

(***************************************************************************)
(* C3.  Once five replies of the turn have requested tool calls, the turn  *)
(* does not throw, and what it returns and persists is the fixed apology.  *)
(***************************************************************************)
C3_ExhaustedApology ==
  ToolReplies = 5
  => /\ pc # "threw"
     /\ pc = "returned"
        => /\ response.assistantMessage =
                "I apologize, but I reached the maximum number of tool calls. Please try rephrasing your question."
           /\ LastRow = Row(convId, "assistant", response.assistantMessage)

\* five tool calling replies, and the turn returned
C3_FiveToolReplies == ToolReplies = 5 /\ pc = "returned"

(***************************************************************************)
(* C4.  A call that returns has added two rows to the store: the user      *)
(* message and then one assistant message, whose content is the returned   *)
(* assistantMessage.  The returned debugEvents are those of the turn: one  *)
(* tokens event per answered request when usage is reported, one tool_call *)
(* event per executed tool call.                                           *)
(***************************************************************************)
C4_PersistedBeforeReturn ==
  pc = "returned"
  => /\ db = InitialMessages \o
               << Row(response.newConversationId, "user", userMessage),
                  Row(response.newConversationId, "assistant",
                      response.assistantMessage) >>
     /\ response.debugEvents = debugEvents
     /\ EventsOf(response.debugEvents, "tokens") =
          IF llmUsage THEN llmRequests ELSE 0
     /\ EventsOf(response.debugEvents, "tool_call:") = Len(executed)

\* a turn that executed tool calls, recorded events and returned
C4_ReturnedWithEvents ==
  /\ pc = "returned"
  /\ Len(response.debugEvents) > 2
  /\ Len(executed) > 0

(***************************************************************************)
(* C5.  With a recommendation intent and a non-null payload of the fast    *)
(* path, the turn makes no completion request and executes no tool call,   *)
(* and it persists and returns the payload; a turn that made a completion  *)
(* request had no intent or a null payload.                                *)
(***************************************************************************)
C5_FastPathSkipsLLM ==
  /\ (fastPath.wants /\ ~fastPath.threw /\ fastPath.override # Null)
     => /\ llmRequests = 0
        /\ executed = <<>>
        /\ pc \in {"persist_override", "returned"}
        /\ pc = "returned"
           => /\ response.assistantMessage = fastPath.override
              /\ LastRow = Row(convId, "assistant", fastPath.override)
  /\ (llmRequests > 0 \/ pc = "loop")
     => (~fastPath.wants \/ fastPath.override = Null)

\* the fast path answered and the turn returned its payload
C5_FastPathAnswered ==
  /\ pc = "returned"
  /\ isRecommendationIntent(userMessage)
  /\ fastPath.override # Null
  /\ response.assistantMessage = fastPath.override

(***************************************************************************)
(* C6.  executeTool does not throw.  It returns a result without error,    *)
(* or a null result with an error message: the latter when the arguments   *)
(* do not satisfy the schema of the tool (no collaborator is called), when *)
(* the collaborator of a single-collaborator tool throws, and when the     *)
(* name is unknown (the error contains "Unknown tool" and no collaborator  *)
(* is called).                                                             *)
(***************************************************************************)
C6_ExecuteToolNeverThrows ==
  toolRun # NoToolRun
  => /\ ~toolRun.out.threw
     /\ \/ toolRun.out.error = Undefined /\ toolRun.out.result # NullResult
        \/ IsError(toolRun.out.error) /\ toolRun.out.result = NullResult
     /\ toolRun.name \notin KnownTools
        => /\ Includes(toolRun.out.error, "Unknown tool")
           /\ toolRun.out.calls = <<>>
     /\ (/\ toolRun.name \in KnownTools
         /\ ~ZodParses(ToolSchema(toolRun.name), toolRun.args))
        => /\ IsError(toolRun.out.error)
           /\ toolRun.out.calls = <<>>
     /\ (/\ toolRun.name = "search_movies"
         /\ ZodParses(ToolSchema(toolRun.name), toolRun.args)
         /\ ~toolRun.env.searchMovies.ok)
        => toolRun.out.error = toolRun.env.searchMovies.message
     /\ (/\ toolRun.name \in {"get_movie_details",
                              "get_semantic_movie_recommendations"}
         /\ ZodParses(ToolSchema(toolRun.name), toolRun.args)
         /\ ~toolRun.env.getMovieDetails.ok)
        => toolRun.out.error = toolRun.env.getMovieDetails.message
     /\ toolRun.out.error = Undefined
        => /\ toolRun.name \in KnownTools
           /\ ZodParses(ToolSchema(toolRun.name), toolRun.args)

\* a collaborator threw and executeTool returned the error
C6_CollaboratorErrorReturned ==
  /\ toolRun # NoToolRun
  /\ toolRun.name = "search_movies"
  /\ toolRun.out.calls # <<>>
  /\ toolRun.out.error = ApiError

(***************************************************************************)
(* C7.  get_semantic_movie_recommendations with a seed whose details       *)
(* resolve.  As stated: when the semantic recommender throws or returns an *)
(* empty list, executeTool returns without error a list that the catalog   *)
(* recommendation endpoint returned.                                       *)
(***************************************************************************)
SemanticRun ==
  /\ toolRun # NoToolRun
  /\ toolRun.name = "get_semantic_movie_recommendations"
  /\ ZodParses(ToolSchema(toolRun.name), toolRun.args)
  /\ toolRun.env.getMovieDetails.ok

CatalogCalls ==
  { i \in 1..Len(toolRun.out.calls) :
      toolRun.out.calls[i].fn = "getMovieRecommendations" }

C7_FallbackAlwaysAnswers ==
  (/\ SemanticRun
   /\ \/ ~toolRun.env.getSemanticMovieRecommendations.ok
      \/ toolRun.env.getSemanticMovieRecommendations.value = <<>>)
  => /\ toolRun.out.error = Undefined
     /\ \E k \in 1..3 :
          /\ toolRun.env.getMovieRecommendations[k].ok
          /\ toolRun.out.result =
               ListResult(toolRun.env.getMovieRecommendations[k].value)

(***************************************************************************)
(* C7, amended.  When the semantic recommender throws or returns an empty  *)
(* list, the catalog recommendation endpoint is asked for the same movie   *)
(* id (a second time when the list was empty and the first request         *)
(* failed): if it answers, executeTool returns that list without error; if *)
(* it fails, executeTool returns a null result with the error.  A          *)
(* non-empty semantic list is returned as it is and the catalog endpoint   *)
(* is not called.                                                          *)
(***************************************************************************)
C7_FallbackWhenCatalogAnswers ==
  SemanticRun
  => LET semantic == toolRun.env.getSemanticMovieRecommendations
         recs     == toolRun.env.getMovieRecommendations
         out      == toolRun.out
         answered(k) == /\ out.error = Undefined
                        /\ out.result = ListResult(recs[k].value)
                        /\ Cardinality(CatalogCalls) = k
         failed(k)   == /\ out.error = recs[k].message
                        /\ out.result = NullResult
                        /\ Cardinality(CatalogCalls) = k
     IN /\ \A i \in CatalogCalls :
             out.calls[i].movieId = toolRun.args.movie_id.v
        /\ IF semantic.ok /\ semantic.value # <<>>
           THEN /\ out.error = Undefined
                /\ out.result = ListResult(semantic.value)
                /\ CatalogCalls = {}
           ELSE IF ~semantic.ok
           THEN IF recs[1].ok THEN answered(1) ELSE failed(1)
           ELSE IF recs[1].ok THEN answered(1)
           ELSE IF recs[2].ok THEN answered(2) ELSE failed(2)

\* the semantic recommender threw and the catalog list was returned
C7_FellBackToCatalog ==
  /\ SemanticRun
  /\ ~toolRun.env.getSemanticMovieRecommendations.ok
  /\ toolRun.out.error = Undefined
  /\ toolRun.out.result = ListResult(<<BladeRunner, Heat>>)

(***************************************************************************)
(* C8.  When a completion request is about to be sent, every reply of the  *)
(* context that requested the calls c1..cn is directly followed by n tool  *)
(* messages, the j-th with the id of cj, and no further tool message.      *)
(***************************************************************************)
C8_EveryCallAnswered ==
  (pc = "loop" /\ LoopContinues(iteration))
  => \A i \in 1..Len(messages) :
       LET calls == messages[i].tool_calls
       IN calls # <<>>
          => /\ i + Len(calls) <= Len(messages)
             /\ \A j \in 1..Len(calls) :
                  /\ messages[i + j].role = "tool"
                  /\ messages[i + j].tool_call_id = calls[j].id
             /\ \/ i + Len(calls) = Len(messages)
                \/ messages[i + Len(calls) + 1].role # "tool"

(***************************************************************************)
(* C9.  Every executed tool call of a turn whose name matches the          *)
(* persistence pattern carries the user id of the turn, the store is read  *)
(* and written for that user only, and the rows of the other users are     *)
(* those of the start.                                                     *)
(***************************************************************************)
C9_ToolsActForTurnUser ==
  /\ \A i \in 1..Len(executed) :
       IsPersistenceTool(executed[i].name)
       => /\ "user_id" \in DOMAIN executed[i].args
          /\ executed[i].args.user_id = Str(userId)
          /\ \A j \in 1..Len(executed[i].calls) :
               executed[i].calls[j].userId \in {Null, userId}
  /\ { r \in watched : r.userId # userId }
       = { r \in InitialWatched : r.userId # userId }

\* the LLM asked to save for "u2" in a turn of "u1", and the movie was
\* saved for "u1"
C9_SavedForTurnUser ==
  /\ userId = "u1"
  /\ \E i \in 1..Len(executed) :
       /\ executed[i].name = "save_watched_movie"
       /\ executed[i].error = Undefined
  /\ \E r \in watched : r.userId = "u1" /\ r.movieId = 7

(***************************************************************************)
(* C10.  The debugEvents of a returned turn hold at least one error typed  *)
(* event for every absorbed error: a tool call that returned an error, a   *)
(* tool call whose arguments did not parse, a failure of the semantic      *)
(* recommender answered by the catalog fallback.                           *)
(***************************************************************************)
C10_AbsorbedErrorsTraced ==
  pc = "returned"
  => EventsOf(response.debugEvents, "tool_error") >= Len(absorbed)

(***************************************************************************)
(* C11.  A failure of an upstream recommendation source (seed search or    *)
(* details, semantic recommender, catalog recommendations, history         *)
(* aggregate) counts as an empty list of that source: the fast path never  *)
(* throws, so that no such failure makes chatWithTools throw.              *)
(***************************************************************************)
C11_SourceFailureAbsorbed ==
  fastPath.wants => ~fastPath.threw

\* no two items of a list have the same id
DistinctIds(list) ==
  \A i, j \in 1..Len(list) : list[i].id = list[j].id => i = j

C13_PayloadRespectsConstraints ==
  mergeRun # NoMergeRun
  => \A i \in 1..Len(mergeRun.out.movies) :
       LET movie == mergeRun.out.movies[i]
           G == mergeRun.options.excludeGenres
       IN /\ \A g \in 1..Len(movie.genres), x \in 1..Len(G) :
               ToLowerCase(movie.genres[g]) # ToLowerCase(G[x])
          /\ mergeRun.options.minYear # NoYear
             => /\ movie.releaseYear # NoYear
                /\ movie.releaseYear >= mergeRun.options.minYear
          /\ mergeRun.options.maxYear # NoYear
             => /\ movie.releaseYear # NoYear
                /\ movie.releaseYear <= mergeRun.options.maxYear

(***************************************************************************)
(* C15.  The history request answers with one transformed message per      *)
(* stored message of the conversation, in order, and never fails on the    *)
(* content: an assistant content that is a payload of the schema gives its *)
(* message as content and its movies ([] when it has none); any other      *)
(* assistant content gives the raw text and no movies.                     *)
(***************************************************************************)
StoredOf(conversation) ==
  SelectSeq(db, LAMBDA m : m.conversationId = conversation)

C15_ReplayParsesOrFallsBack ==
  (replayRun # NoReplayRun /\ replayRun.request.userId # "")
  => /\ replayRun.response.status = 200
     /\ replayRun.response.body.conversationId # Null
        => LET stored == StoredOf(replayRun.response.body.conversationId)
               out == replayRun.response.body.messages
           IN /\ Len(out) = Len(stored)
              /\ \A i \in 1..Len(stored) :
                   stored[i].role = "assistant"
                   => /\ \A p \in StoredPayloads :
                           stored[i].content = p.text
                           => /\ out[i].content = p.message
                              /\ out[i].movies = p.movies
                      /\ stored[i].content \in StoredTextsOnly
                         => /\ out[i].content = stored[i].content
                            /\ out[i].movies = <<>>

\* a replayed conversation with a fast-path payload of two movies
C15_PayloadReplayed ==
  /\ replayRun # NoReplayRun
  /\ replayRun.response.status = 200
  /\ replayRun.response.body.conversationId = "c1"
  /\ Len(replayRun.response.body.messages) = 2
  /\ replayRun.response.body.messages[2].content =
       "Here are recommendations similar to Heat."
  /\ Len(replayRun.response.body.messages[2].movies) = 2

(***************************************************************************)
(* C14.  The assistantMessage that the send-message request returns for a  *)
(* turn has the message and the movies that the history request returns    *)
(* afterwards for the assistant message persisted by that turn.            *)
(***************************************************************************)
LiveMovies(live) == IF "movies" \in DOMAIN live THEN live.movies ELSE <<>>

C14_LiveEqualsReplay ==
  (pc = "responded" /\ chatResponse.status = 200)
  => LET live == chatResponse.body.assistantMessage
         replayed == PostHistory(userId, chatResponse.body.conversationId,
                                 conversations, db).body.messages
     IN /\ live.message = replayed[Len(replayed)].content
        /\ LiveMovies(live) = replayed[Len(replayed)].movies

(***************************************************************************)
(* C20.  A send-message request whose body is not JSON, or lacks a         *)
(* non-empty string userId or message, is answered with status 400 and     *)
(* nothing else happens: chatWithTools is not called, no conversation and  *)
(* no message is created, no completion request and no tool call is made.  *)
(***************************************************************************)
C20_InvalidBodyRejected ==
  chatRequest \in InvalidChatBodies
  => /\ pc \in {"request", "responded"}
     /\ pc = "responded" => chatResponse.status = 400
     /\ conversations = InitialConversations
     /\ db = InitialMessages
     /\ watched = InitialWatched
     /\ llmRequests = 0
     /\ executed = <<>>
     /\ ~fastPath.wants

\* a body with an empty message was answered with 400
C20_EmptyMessageRejected ==
  /\ pc = "responded"
  /\ chatResponse.status = 400
  /\ chatRequest.json
  /\ IsString(chatRequest.fields, "message")
  /\ chatRequest.fields.message.v = ""

(***************************************************************************)
(* Two requests on one conversation.  POST /api/chat awaits chatWithTools, *)
(* and chatWithTools awaits each database call and the answer, so the      *)
(* steps of two requests of the same conversation run in any order.        *)
(* Nothing in the route or in chatWithTools holds a lock on the            *)
(* conversation.                                                           *)
(***************************************************************************)
SharedConversation == "c1"
TurnMessages == {"hello", "movies like Heat"}
TurnAnswers == {"Hi!", "Try Ronin."}

InitTurns ==
  InitWith({"u1"}, {SharedConversation}, {"hello"}, {TRUE}, {FALSE},
           {SearchCall}, {EnvAllOk}, {InitialWatched}, "turns")

TurnsUnchanged ==
  UNCHANGED << requestVars, conversations, watched, now, turnLocals,
               turnHistory, pc, toolRun, mergeRun, replayRun, routeVars,
               saves, feedbackVars, clientVars >>

TurnStep(t, next) ==
  [turns EXCEPT !.of = [turns.of EXCEPT ![t] = next]]

\* POST: the body is valid and chatWithTools starts; the conversation id is
\* given, so no conversation is created
BeginTurn(t) ==
  /\ turns.of[t].pc = "idle"
  /\ \E text \in TurnMessages :
       turns' = TurnStep(t, [turns.of[t] EXCEPT !.pc = "save_user",
                                                !.userMessage = text])
  /\ UNCHANGED db
  /\ TurnsUnchanged

\* "save user message"
TurnSaveUser(t) ==
  /\ turns.of[t].pc = "save_user"
  /\ db' = CreateMessage(db, conversationId, "user", turns.of[t].userMessage)
  /\ turns' = [of |-> [turns.of EXCEPT ![t].pc = "load_history"],
               writers |-> Append(turns.writers, t)]
  /\ TurnsUnchanged

\* "get conversation history"
TurnLoadHistory(t) ==
  /\ turns.of[t].pc = "load_history"
  /\ turns' = TurnStep(t, [turns.of[t] EXCEPT
                 !.pc = "answer",
                 !.history = getConversationHistory(db, conversationId)])
  /\ UNCHANGED db
  /\ TurnsUnchanged

\* the fast path and the tool calling loop: they end with a final response
\* or throw, and write no message
TurnAnswer(t) ==
  /\ turns.of[t].pc = "answer"
  /\ \/ \E text \in TurnAnswers :
          turns' = TurnStep(t, [turns.of[t] EXCEPT !.pc = "save_assistant",
                                                   !.finalResponse = text])
     \/ turns' = TurnStep(t, [turns.of[t] EXCEPT !.pc = "threw"])
  /\ UNCHANGED db
  /\ TurnsUnchanged

\* "save assistant message" and the return to the route
TurnSaveAssistant(t) ==
  /\ turns.of[t].pc = "save_assistant"
  /\ db' = CreateMessage(db, conversationId, "assistant",
                         turns.of[t].finalResponse)
  /\ turns' = [of |-> [turns.of EXCEPT ![t].pc = "done"],
               writers |-> Append(turns.writers, t)]
  /\ TurnsUnchanged

NextTurns ==
  \/ \E t \in TurnIds : BeginTurn(t)
  \/ \E t \in TurnIds : TurnSaveUser(t)
  \/ \E t \in TurnIds : TurnLoadHistory(t)
  \/ \E t \in TurnIds : TurnAnswer(t)
  \/ \E t \in TurnIds : TurnSaveAssistant(t)

SpecTurns == InitTurns /\ [][NextTurns]_vars

\* C16: the messages two concurrent turns persist on one conversation do not
\* interleave: the rows of a turn are next to each other in creation order,
\* and the user message of a finished turn is immediately followed by the
\* assistant message of that turn.
C16_TurnsDoNotInterleave ==
  LET w == turns.writers
      first == Len(db) - Len(w)
  IN /\ \A i, k \in 1..Len(w) :
          i < k /\ w[i] = w[k] => \A j \in i..k : w[j] = w[i]
     /\ \A t \in TurnIds :
          turns.of[t].pc = "done" =>
            \E i \in 1..(Len(w) - 1) :
              /\ w[i] = t /\ w[i + 1] = t
              /\ db[first + i].role = "user"
              /\ db[first + i + 1].role = "assistant"

(***************************************************************************)
(* Turns on conversations of several lengths, around the limit of          *)
(* getConversationHistory.                                                 *)
(***************************************************************************)
HistoryLengths == {0, 1, 18, 19, 20, 21, 24}
LongConversation(n) ==
  [i \in 1..n |->
     Row("c1", IF i % 2 = 1 THEN "user" ELSE "assistant",
         "message " \o ToString(i))]
\* the rows of another conversation lie between those of c1
OtherRows == << Row("c2", "user", "hello"), Row("c2", "assistant", "Hi!") >>
LongStores ==
  { LongConversation(n) : n \in HistoryLengths }
    \cup { SubSeq(LongConversation(n), 1, 2) \o OtherRows
             \o SubSeq(LongConversation(n), 3, n) :
           n \in HistoryLengths \ {0, 1} }

InitLong ==
  /\ userId = "u1"
  /\ conversationId = "c1"
  /\ userMessage \in {"hello there", "recommend movies like Heat"}
  /\ chatRequest = NoChatRequest
  /\ InitWorld({TRUE}, BOOLEAN, {SearchCall}, {EnvAllOk})
  /\ conversations = InitialConversations \cup { [id |-> "c2", userId |-> "u2"] }
  /\ db \in LongStores
  /\ watched = InitialWatched
  /\ now = InitialClock
  /\ InitTurn("start")

SpecLong == InitLong /\ [][Next]_vars

\* the last n items of a list
MostRecent(items, n) ==
  SubSeq(items, IF Len(items) > n THEN Len(items) - n + 1 ELSE 1, Len(items))

\* C17: the prior turns loaded at the start of a turn are the 20 most recent
\* messages of the conversation, in chronological order, whatever the length
\* of the conversation; when it holds more than 20 messages the newest ones
\* are loaded.
C17_MostRecentLoaded ==
  pc = "fast_path" =>
    LET ofConversation(r) == r.conversationId = convId
        stored == SelectSeq(db, ofConversation)
        recent == MostRecent(stored, HistoryLimit)
    IN history = [i \in 1..Len(recent) |->
                    Message(recent[i].role, recent[i].content)]

(***************************************************************************)
(* saveWatchedMovie called again and again on one store.                   *)
(***************************************************************************)
MaxSaves == 3
SaveUsers == {"u1", "u2"}
SaveMovies == {42, 7}
SaveTitles == {"Interstellar", "Interstellar (2014)", ""}
SaveEnvs == {EnvAllOk, EnvAllFail}
SavesStore ==
  { [userId |-> "u1", movieId |-> 42, movieTitle |-> "Interstelar",
     addedAt |-> 1],
    [userId |-> "u2", movieId |-> 7, movieTitle |-> "Heat", addedAt |-> 1] }

InitSaves ==
  InitWith({"u1"}, {"c1"}, {"hello there"}, {TRUE}, {FALSE}, {SearchCall},
           {EnvAllOk}, {SavesStore}, "saves")

Save(user, movieId, movieTitle, at, out) ==
  [userId |-> user, movieId |-> movieId, movieTitle |-> movieTitle,
   at |-> at, threw |-> out.threw]

RunSaveWith(user, movieId, movieTitle, out) ==
  /\ watched' = out.watched
  /\ saves' = Append(saves, Save(user, movieId, movieTitle, now, out))

RunSave ==
  /\ pc = "saves"
  /\ Len(saves) < MaxSaves
  /\ \E user \in SaveUsers, movieId \in SaveMovies, movieTitle \in SaveTitles,
        env \in SaveEnvs :
       RunSaveWith(user, movieId, movieTitle,
                   SaveWatchedMovie(user, movieId, movieTitle, env, watched,
                                    now))
  /\ now' = now + 1
  /\ UNCHANGED << requestVars, conversations, db, pc, turnLocals,
                  turnHistory, toolRun, mergeRun, replayRun, routeVars,
                  turns, feedbackVars, clientVars >>

SpecSaves == InitSaves /\ [][RunSave]_vars

\* the saves of a pair that went through, by their place in the sequence
SavesOf(key) ==
  { i \in 1..Len(saves) :
      ~saves[i].threw /\ <<saves[i].userId, saves[i].movieId>> = key }
Latest(places) == CHOOSE i \in places : \A j \in places : j <= i

FeedbackKey(row) == <<row.userId, row.itemType, row.itemId>>
FeedbackRow(user, itemType, itemId, rating) ==
  [userId |-> user, itemType |-> itemType, itemId |-> itemId,
   rating |-> rating]

\* toggleFeedback of lib/persistence: no record of the item stores the
\* rating, the same rating again deletes the record, the opposite rating
\* updates it; the answer is the rating left, or null
toggleFeedback(rows, user, itemType, itemId, rating) ==
  LET key == <<user, itemType, itemId>>
      existing == { r \in rows : FeedbackKey(r) = key }
      row == FeedbackRow(user, itemType, itemId, rating)
  IN IF existing = {}
     THEN [rows |-> rows \cup {row}, rating |-> Num(rating)]
     ELSE IF \E r \in existing : r.rating = rating
     THEN [rows |-> rows \ existing, rating |-> JNull]
     ELSE [rows |-> (rows \ existing) \cup {row}, rating |-> Num(rating)]

\* String(itemId) of a string or a whole number
String(value) == IF value.t = "number" THEN ToString(value.v) ELSE value.v

\* feedbackSchema.safeParse(json).success
feedbackSchema(body) ==
  /\ body.json
  /\ IsString(body.fields, "userId") /\ Len(body.fields.userId.v) >= 1
  /\ IsString(body.fields, "itemType") /\ Len(body.fields.itemType.v) >= 1
  /\ "itemId" \in DOMAIN body.fields
  /\ body.fields.itemId.t \in {"string", "number"}
  /\ "rating" \in DOMAIN body.fields
  /\ body.fields.rating \in {Num(1), Num(-1)}

FeedbackBody(user, itemType, itemId, rating) ==
  ChatBody(TRUE, [userId |-> user, itemType |-> itemType, itemId |-> itemId,
                  rating |-> rating])
ValidFeedbackBodies ==
  { FeedbackBody(Str(user), Str("movie"), itemId, Num(rating)) :
      user \in {"u1", "u2"}, itemId \in {Str("42"), Num(42), Str("7")},
      rating \in {1, -1} }
InvalidFeedbackBodies ==
  { ChatBody(FALSE, [k \in {} |-> Null]),
    FeedbackBody(Str("u1"), Str("movie"), Str("42"), Num(0)),
    FeedbackBody(Str("u1"), Str("movie"), Str("42"), Str("1")),
    FeedbackBody(Str(""), Str("movie"), Num(42), Num(1)),
    FeedbackBody(Str("u1"), Str(""), Num(42), Num(-1)),
    FeedbackBody(Str("u1"), Str("movie"), JNull, Num(1)),
    ChatBody(TRUE, [userId |-> Str("u1"), itemType |-> Str("movie"),
                    rating |-> Num(1)]) }

InitFeedback ==
  InitWith({"u1"}, {"c1"}, {"hello there"}, {TRUE}, {FALSE}, {SearchCall},
           {EnvAllOk}, {InitialWatched}, "feedback")

\* an answer that always reports the rating as cleared
FeedbackCleared(result) ==
  HttpResponse(200, [success |-> TRUE, rating |-> JNull])

\* NextResponse.json({ success: true, rating: result.rating })
FeedbackSaved(result) ==
  HttpResponse(200, [success |-> TRUE, rating |-> result.rating])

\* a toggle that went through to toggleFeedback
Toggled(body, before, result) ==
  [userId |-> body.fields.userId.v, itemType |-> body.fields.itemType.v,
   itemId |-> String(body.fields.itemId), rating |-> body.fields.rating.v,
   before |-> before,
   response |-> FeedbackSaved(result)]
Refused(status, error) ==
  [userId |-> Null, response |-> HttpResponse(status, [error |-> error])]

PostFeedbackWith(body, before, result) ==
  /\ feedback' = result.rows
  /\ toggled' = Toggled(body, before, result)

\* POST of the feedback route; the store may fail, which the catch answers
PostFeedback ==
  /\ pc = "feedback"
  /\ \E body \in ValidFeedbackBodies \cup InvalidFeedbackBodies :
       IF ~feedbackSchema(body)
       THEN /\ toggled' = Refused(400, "Invalid request body")
            /\ UNCHANGED feedback
       ELSE \/ PostFeedbackWith(body, feedback,
                 toggleFeedback(feedback, body.fields.userId.v,
                                body.fields.itemType.v,
                                String(body.fields.itemId),
                                body.fields.rating.v))
            \/ /\ toggled' = Refused(500, "Failed to save feedback")
               /\ UNCHANGED feedback
  /\ UNCHANGED << requestVars, storeVars, pc, turnLocals, turnHistory,
                  toolRun, mergeRun, replayRun, routeVars, turns, saves,
                  clientVars >>

SpecFeedback == InitFeedback /\ [][PostFeedback]_vars

\* the record of the item of the last toggle, in a set of rows
ToggledIn(rows) ==
  { r \in rows :
      FeedbackKey(r) = <<toggled.userId, toggled.itemType, toggled.itemId>> }

\* C19: a toggle with rating r stores r and returns r when the item has no
\* record; it deletes the record and returns null when r is the rating
\* stored; it updates the record and returns r when the opposite rating is
\* stored; and there is never more than one Feedback record per (user, item
\* type, item id).
C19_ToggleFeedback ==
  /\ \A r, q \in feedback : FeedbackKey(r) = FeedbackKey(q) => r = q
  /\ toggled.userId # Null =>
       LET stored == ToggledIn(toggled.before)
           left == ToggledIn(feedback)
           row == FeedbackRow(toggled.userId, toggled.itemType,
                              toggled.itemId, toggled.rating)
           returned == toggled.response.body.rating
       IN IF stored = {}
          THEN left = {row} /\ returned = Num(toggled.rating)
          ELSE IF \E r \in stored : r.rating = toggled.rating
          THEN left = {} /\ returned = JNull
          ELSE left = {row} /\ returned = Num(toggled.rating)

\* the rating stored toggled a second time, next to the record of another
\* item
C19_ToggledOff ==
  /\ toggled.userId # Null
  /\ \E r \in ToggledIn(toggled.before) : r.rating = toggled.rating
  /\ toggled.response.body.rating = JNull
  /\ feedback # {}

(***************************************************************************)
(* The clear request: DELETE of app/api/history/route.ts.                  *)
(***************************************************************************)
Bool(b) == JValue("boolean", b)

\* historyDeleteSchema.safeParse(json).success
historyDeleteSchema(body) ==
  /\ body.json
  /\ IsString(body.fields, "userId") /\ Len(body.fields.userId.v) >= 1
  /\ "conversationId" \in DOMAIN body.fields
       => body.fields.conversationId.t = "string"
  /\ "clearAll" \in DOMAIN body.fields => body.fields.clearAll.t = "boolean"

Store(convs, rows, ratings, movies) ==
  [conversations |-> convs, db |-> rows, feedback |-> ratings,
   watched |-> movies]

\* deleting conversations deletes their messages
\* (Message_conversationId_fkey, ON DELETE CASCADE)
DeleteConversations(store, gone) ==
  [store EXCEPT
     !.conversations = store.conversations \ gone,
     !.db = SelectSeq(store.db,
              LAMBDA m : \A c \in gone : m.conversationId # c.id)]

\* a transaction that stops after its first statement
ClearConversationsOnly(store, user) ==
  DeleteConversations(store,
                      { c \in store.conversations : c.userId = user })

\* prisma.$transaction of the three deleteMany of the user
ClearAll(store, user) ==
  LET cleared1 == DeleteConversations(store,
                    { c \in store.conversations : c.userId = user })
  IN [cleared1 EXCEPT
        !.feedback = { f \in store.feedback : f.userId # user },
        !.watched = { w \in store.watched : w.userId # user }]

\* findFirst({id, userId}) with a conversation id, else the latest
\* conversation of the user; the empty set when there is none
FindOwnConversation(convs, user, conversation) ==
  IF conversation # Null /\ conversation # ""
  THEN { c \in convs : c.id = conversation /\ c.userId = user }
  ELSE { c \in convs :
           /\ c.userId = user
           /\ \A d \in convs :
                d.userId = user
                => ConversationIndex(d.id) <= ConversationIndex(c.id) }

ClearRequest(body) ==
  [userId |-> body.fields.userId.v,
   conversationId |-> IF "conversationId" \in DOMAIN body.fields
                      THEN body.fields.conversationId.v ELSE Null,
   clearAll |-> "clearAll" \in DOMAIN body.fields /\ body.fields.clearAll.v]

\* DELETE after the body was parsed: the store left and the response; a
\* failing database rolls the transaction back and is answered by the catch
DeleteHistory(request, store, fails) ==
  IF fails
  THEN [store |-> store,
        response |-> HttpResponse(500, [error |-> "Failed to clear history"])]
  ELSE IF request.clearAll
  THEN [store |-> ClearAll(store, request.userId),
        response |-> HttpResponse(200, [cleared |-> TRUE])]
  ELSE LET found == FindOwnConversation(store.conversations, request.userId,
                                        request.conversationId)
       IN IF found = {}
          THEN [store |-> store,
                response |-> HttpResponse(200, [cleared |-> FALSE])]
          ELSE [store |-> DeleteConversations(store, found),
                response |->
                  HttpResponse(200,
                    [cleared |-> TRUE,
                     conversationId |-> (CHOOSE c \in found : TRUE).id])]

ClearBody(fields) == ChatBody(TRUE, fields)
ClearUsers == {"u1", "u2", "u3"}
ValidClearBodies ==
  { ClearBody([userId |-> Str(u)]) : u \in ClearUsers }
    \cup { ClearBody([userId |-> Str(u), conversationId |-> Str(c)]) :
             u \in ClearUsers, c \in {"c1", "c2", "c3", "c9", ""} }
    \cup { ClearBody([userId |-> Str(u), clearAll |-> Bool(b)]) :
             u \in ClearUsers, b \in BOOLEAN }
    \cup { ClearBody([userId |-> Str(u), conversationId |-> Str("c1"),
                      clearAll |-> Bool(TRUE)]) : u \in ClearUsers }
InvalidClearBodies ==
  { ChatBody(FALSE, [k \in {} |-> Null]),
    ClearBody([userId |-> Str("")]),
    ClearBody([conversationId |-> Str("c1")]),
    ClearBody([userId |-> Str("u1"), clearAll |-> Str("true")]),
    ClearBody([userId |-> Str("u1"), conversationId |-> Num(1)]) }

ClearConversations ==
  { [id |-> "c1", userId |-> "u1"], [id |-> "c2", userId |-> "u2"],
    [id |-> "c3", userId |-> "u1"] }
ClearMessages ==
  << Row("c1", "user", "movies like Heat"), Row("c2", "user", "hello"),
     Row("c1", "assistant", "Try Ronin."), Row("c3", "user", "hello there"),
     Row("c2", "assistant", "Hi!") >>
ClearFeedback ==
  { FeedbackRow("u1", "movie", "42", 1), FeedbackRow("u2", "movie", "42", -1),
    FeedbackRow("u2", "movie", "7", 1) }
ClearWatched ==
  { [userId |-> "u1", movieId |-> 42, movieTitle |-> "Interstellar",
     addedAt |-> 1],
    [userId |-> "u2", movieId |-> 42, movieTitle |-> "Interstellar",
     addedAt |-> 1] }

InitClear ==
  /\ userId = "u1"
  /\ conversationId = Null
  /\ userMessage = "hello there"
  /\ chatRequest = NoChatRequest
  /\ InitWorld({TRUE}, {FALSE}, {}, {})
  /\ conversations = ClearConversations
  /\ db = ClearMessages
  /\ watched \in {ClearWatched, {}}
  /\ now = InitialClock
  /\ InitLocals("clear")
  /\ feedback \in {ClearFeedback, {}}
  /\ fetches = NoFetch
  /\ spotify = NoSpotify

RunClearWith(body, before, out) ==
  /\ conversations' = out.store.conversations
  /\ db' = out.store.db
  /\ feedback' = out.store.feedback
  /\ watched' = out.store.watched
  /\ cleared' = [userId |-> body.fields.userId.v,
                 request |-> ClearRequest(body), before |-> before,
                 response |-> out.response]

RunClear ==
  /\ pc = "clear"
  /\ \E body \in ValidClearBodies \cup InvalidClearBodies :
       IF ~historyDeleteSchema(body)
       THEN /\ cleared' = [userId |-> Null,
                           response |->
                             HttpResponse(400,
                               [error |-> "Invalid request body"])]
            /\ UNCHANGED << conversations, db, feedback, watched >>
       ELSE \E fails \in BOOLEAN :
              RunClearWith(body,
                Store(conversations, db, feedback, watched),
                DeleteHistory(ClearRequest(body),
                  Store(conversations, db, feedback, watched), fails))
  /\ UNCHANGED << requestVars, now, pc, turnLocals, turnHistory, toolRun,
                  mergeRun, replayRun, routeVars, turns, saves, toggled,
                  fetches, spotify, songRun, extractRun >>

SpecClear == InitClear /\ [][RunClear]_vars

\* what the user owns in a store
OwnedBy(store, user) ==
  LET convs == { c \in store.conversations : c.userId = user }
  IN Store(convs,
           SelectSeq(store.db,
             LAMBDA m : \E c \in convs : m.conversationId = c.id),
           { f \in store.feedback : f.userId = user },
           { w \in store.watched : w.userId = user })

\* C21: a clear request with clearAll deletes all conversations of the user
\* with their messages, all feedback and all watched items of that user, or
\* nothing at all when it fails; without clearAll it deletes only the
\* current conversation (the given one, or the most recent one of the user)
\* with its messages; no data of any other user changes.
C21_ClearRequest ==
  cleared.userId # Null =>
    LET before == cleared.before
        after == Store(conversations, db, feedback, watched)
        user == cleared.request.userId
        given == cleared.request.conversationId
        mine == { c \in before.conversations : c.userId = user }
        current ==
          IF given # Null /\ given # ""
          THEN { c \in mine : c.id = given }
          ELSE { c \in mine : \A d \in mine :
                   ConversationIndex(d.id) <= ConversationIndex(c.id) }
        kept(gone) ==
          SelectSeq(before.db,
            LAMBDA m : \A c \in gone : m.conversationId # c.id)
    IN /\ \A other \in ClearUsers \ {user} :
            OwnedBy(after, other) = OwnedBy(before, other)
       /\ IF cleared.response.status # 200 THEN after = before
          ELSE IF cleared.request.clearAll
          THEN OwnedBy(after, user) = Store({}, <<>>, {}, {})
          ELSE /\ after.conversations = before.conversations \ current
               /\ after.db = kept(current)
               /\ after.feedback = before.feedback
               /\ after.watched = before.watched

\* a clearAll of a user with conversations, feedback and watched items, next
\* to the data of another user
C21_AllCleared ==
  /\ cleared.userId = "u1"
  /\ cleared.request.clearAll
  /\ cleared.response.status = 200
  /\ cleared.before.feedback = ClearFeedback
  /\ cleared.before.watched = ClearWatched
  /\ cleared.before.conversations = ClearConversations

(***************************************************************************)
(* fetchWithTimeout of lib/http.ts.  The call runs up to the await of      *)
(* fetch in one step; the timer callback, the abort of the caller's signal *)
(* and the answer of the network are events of their own, and the catch    *)
(* and finally blocks run with the event that settles fetch.               *)
(***************************************************************************)
DEFAULT_TIMEOUT_MS == 8000
MaxTicks == 3
\* the step of the clock of the model
TimerStep == DEFAULT_TIMEOUT_MS \div 2

\* a thrown value; isError is what "instanceof Error" answers (a
\* DOMException is an Error)
JsError(name, message) ==
  [name |-> name, message |-> message, isError |-> TRUE]
AbortError == JsError("AbortError", "This operation was aborted")
TimedOut == JsError("Error", "Request timed out. Please try again.")
NetworkErrors ==
  { JsError("TypeError", "fetch failed"),
    JsError("Error", "getaddrinfo ENOTFOUND api.themoviedb.org") }
ResponseStatuses == {200, 401, 500}

FetchResponse(status) == [kind |-> "response", status |-> status]
FetchError(error) == [kind |-> "error", error |-> error]

\* a catch block that rethrows what it caught
Rethrow(error) == error

\* catch (error): an AbortError becomes the uniform error, anything else is
\* thrown again
CatchFetchError(error) ==
  IF error.isError /\ error.name = "AbortError" THEN TimedOut ELSE error

\* setTimeout, the check of init.signal and addEventListener, up to the
\* await of fetch; caller is "none" without init.signal
StartFetch(caller, timeoutMs) ==
  IF caller = "aborted"
  THEN [pc |-> "done", timeoutMs |-> timeoutMs, ticks |-> 0,
        timer |-> "cleared", listener |-> "none", caller |-> caller,
        aborted |-> FALSE, outcome |-> FetchError(TimedOut), settled |-> 1]
  ELSE [pc |-> "awaiting", timeoutMs |-> timeoutMs, ticks |-> 0,
        timer |-> "armed",
        listener |-> IF caller = "none" THEN "none" ELSE "added",
        caller |-> caller, aborted |-> FALSE, outcome |-> Null,
        settled |-> 0]

\* the finally block
Finally(call) ==
  [call EXCEPT !.timer = IF call.timer = "armed" THEN "cleared"
                         ELSE call.timer,
               !.listener = IF call.caller = "none" THEN "none"
                            ELSE "removed"]

\* fetch settles: the outcome of the call, then the finally block
SettleFetch(call, outcome) ==
  Finally([call EXCEPT !.pc = "done", !.outcome = outcome,
                       !.settled = call.settled + 1])

\* controller.abort(): a pending fetch rejects with an AbortError
AbortController(call) ==
  IF call.pc = "awaiting" /\ ~call.aborted
  THEN SettleFetch([call EXCEPT !.aborted = TRUE],
                   FetchError(CatchFetchError(AbortError)))
  ELSE [call EXCEPT !.aborted = TRUE]

InitFetch ==
  /\ InitWith({"u1"}, {"c1"}, {"hello there"}, {TRUE}, {FALSE}, {SearchCall},
              {EnvAllOk}, {InitialWatched}, "fetch")

FetchUnchanged ==
  UNCHANGED << requestVars, storeVars, pc, turnLocals, turnHistory, toolRun,
               mergeRun, replayRun, routeVars, turns, saves, feedbackVars,
               cleared, spotify, songRun, extractRun >>

\* fetchWithTimeout(input, init, timeoutMs), timeoutMs being the default
\* when it is not given
CallFetch ==
  /\ fetches.pc = "idle"
  /\ \E caller \in {"none", "idle", "aborted"},
        timeoutMs \in {DEFAULT_TIMEOUT_MS, TimerStep} :
       fetches' = StartFetch(caller, timeoutMs)
  /\ FetchUnchanged

\* time passes
Tick ==
  /\ fetches.pc # "idle"
  /\ fetches.ticks < MaxTicks
  /\ ~(fetches.timer = "armed"
       /\ fetches.ticks * TimerStep >= fetches.timeoutMs)
  /\ fetches' = [fetches EXCEPT !.ticks = fetches.ticks + 1]
  /\ FetchUnchanged

\* the callback of setTimeout, unless clearTimeout came first
TimerFires ==
  /\ fetches.pc # "idle"
  /\ fetches.timer = "armed"
  /\ fetches.ticks * TimerStep >= fetches.timeoutMs
  /\ fetches' = AbortController([fetches EXCEPT !.timer = "fired"])
  /\ FetchUnchanged

\* the caller aborts init.signal: abortListener runs if it is still there
CallerAborts ==
  /\ fetches.pc # "idle"
  /\ fetches.caller = "idle"
  /\ fetches' =
       IF fetches.listener = "added"
       THEN AbortController([fetches EXCEPT !.caller = "aborted",
                                            !.listener = "removed"])
       ELSE [fetches EXCEPT !.caller = "aborted"]
  /\ FetchUnchanged

\* fetch resolves with a response of any status
NetworkResponds ==
  /\ fetches.pc = "awaiting"
  /\ \E status \in ResponseStatuses :
       fetches' = SettleFetch(fetches, FetchResponse(status))
  /\ FetchUnchanged

\* fetch rejects with an error of the network
NetworkFails ==
  /\ fetches.pc = "awaiting"
  /\ \E error \in NetworkErrors :
       fetches' = SettleFetch(fetches, FetchError(CatchFetchError(error)))
  /\ FetchUnchanged

NextFetch ==
  \/ CallFetch
  \/ Tick
  \/ TimerFires
  \/ CallerAborts
  \/ NetworkResponds
  \/ NetworkFails

SpecFetch == InitFetch /\ [][NextFetch]_vars

\* C22: a call of fetchWithTimeout ends in exactly one of the response, an
\* error of the network as it was thrown, or the uniform time-out error; once
\* the timer has fired or the caller's signal was aborted before the end of
\* the call, the outcome is the uniform error, never an AbortError; and at
\* the end the timer is cleared or has fired and the listener is gone.
C22_FetchOutcome ==
  /\ fetches.pc = "awaiting" =>
       /\ fetches.settled = 0 /\ fetches.timer = "armed"
       /\ ~fetches.aborted /\ fetches.caller # "aborted"
  /\ fetches.pc = "done" =>
       /\ fetches.settled = 1
       /\ fetches.timer # "armed"
       /\ fetches.listener # "added"
       /\ \/ fetches.outcome.kind = "response"
             /\ fetches.outcome.status \in ResponseStatuses
          \/ fetches.outcome.kind = "error"
             /\ fetches.outcome.error \in NetworkErrors \cup {TimedOut}
       /\ fetches.timer = "fired" => fetches.outcome = FetchError(TimedOut)
       /\ fetches.aborted => fetches.outcome = FetchError(TimedOut)
       /\ (fetches.listener = "none" /\ fetches.caller = "aborted")
            => fetches.outcome = FetchError(TimedOut)

\* the timer of the default time-out fired on a pending request
C22_TimerFired ==
  /\ fetches.pc = "done"
  /\ fetches.timer = "fired"
  /\ fetches.timeoutMs = DEFAULT_TIMEOUT_MS
  /\ fetches.outcome = FetchError(TimedOut)

(***************************************************************************)
(* The music catalog client (the Spotify client): getAccessToken with the  *)
(* token cache of the module, and the four calls of the API with their     *)
(* answer to a 401.  Several calls are in flight at once; each await is a  *)
(* step.                                                                   *)
(***************************************************************************)
Callers == {1, 2}
\* the 401 answers of the API over one run
MaxUnauthorized == 2
MaxClockTicks == 1
\* expires_in of a token response when it has none, in seconds
DefaultExpiresIn == 3600
\* a token response that grants ten minutes
ShortExpiresIn == 10 * 60
\* the "5 minute buffer" of the cache, in milliseconds
TokenBufferMs == 5 * 60 * 1000
SpotifyFunctions ==
  {"searchTracks", "getTrackDetails", "getTrackRecommendations",
   "getTrackAlbum"}
\* the functions each caller may start; getTrackDetails runs as the first
\* part of getTrackAlbum
CallerFunctions ==
  << {"searchTracks", "getTrackAlbum"}, {"getTrackRecommendations"} >>
\* statuses of the API other than 200 and 401
ApiErrorStatuses == {429}

\* cachedToken = null
NoCachedToken == [token |-> Null, expiresAt |-> 0]
NoCacheRead == [cachedToken |-> NoCachedToken, clock |-> 0]
IdleCall ==
  [fn |-> Null, stage |-> Null, pc |-> "idle", token |-> Null, retries |-> 0,
   cacheRead |-> NoCacheRead, outcome |-> Null]

\* a call that has ended, how and with what: its locals are gone
Ended(call, how, outcome) ==
  [IdleCall EXCEPT !.fn = call.fn, !.pc = how, !.outcome = outcome,
                   !.retries = call.retries]

\* the cache is used whatever its age
TokenIsCached(cachedToken, clock) == cachedToken # NoCachedToken

\* cachedToken && cachedToken.expiresAt > Date.now() + 5 * 60 * 1000
TokenIsFresh(cachedToken, clock) ==
  cachedToken # NoCachedToken
    /\ cachedToken.expiresAt > clock + TokenBufferMs

\* (data.expires_in as number) || 3600
ExpiresIn(expires_in) ==
  IF expires_in = 0 THEN DefaultExpiresIn ELSE expires_in

\* cachedToken = { token, expiresAt: Date.now() + expiresIn * 1000 }
CachedToken(token, expires_in, clock) ==
  [token |-> token, expiresAt |-> clock + ExpiresIn(expires_in) * 1000]

\* the function a call starts with: getTrackAlbum awaits getTrackDetails
FirstStage(fn) == IF fn = "getTrackAlbum" THEN "getTrackDetails" ELSE fn

\* the error of a response that is neither ok nor a 401
ApiFailure(stage, status) ==
  IF status = 429 /\ stage \in {"searchTracks", "getTrackRecommendations"}
  THEN "Spotify API rate limit exceeded. Retry after 60 seconds."
  ELSE IF status = 404 /\ stage = "getTrackDetails"
  THEN "Track with ID t1 not found"
  ELSE "Spotify API error: " \o ToString(status)

\* if (response.status === 401) { cachedToken = null; return f(args) }: the
\* function calls itself, which starts with getAccessToken again
RetryAfter401(call) ==
  [call EXCEPT !.pc = "token", !.stage = FirstStage(call.fn),
               !.token = Null, !.cacheRead = NoCacheRead,
               !.retries = call.retries + 1]

InitSpotify ==
  /\ userId = "u1"
  /\ conversationId = Null
  /\ userMessage = "hello there"
  /\ chatRequest = NoChatRequest
  /\ InitWorld({TRUE}, {FALSE}, {}, {})
  /\ conversations = InitialConversations
  /\ db = InitialMessages
  /\ watched = InitialWatched
  /\ now = InitialClock
  /\ InitLocals("spotify")
  /\ feedback = {}
  /\ fetches = NoFetch
  /\ \E configured \in BOOLEAN :
       spotify = [configured |-> configured,
                  cachedToken |-> NoCachedToken,
                  clock |-> 0, ticks |-> 0, issued |-> {},
                  unauthorized |-> 0,
                  calls |-> [p \in Callers |-> IdleCall]]

SpotifyUnchanged ==
  UNCHANGED << requestVars, storeVars, pc, turnLocals, turnHistory, toolRun,
               mergeRun, replayRun, routeVars, turns, saves, feedbackVars,
               cleared, fetches, songRun, extractRun >>

SetCall(p, call) == [spotify EXCEPT !.calls[p] = call]

\* a caller starts one of the functions of the client
BeginCall(p) ==
  /\ spotify.calls[p].pc = "idle"
  /\ \E fn \in CallerFunctions[p] :
       spotify' = SetCall(p, [IdleCall EXCEPT !.fn = fn,
                                              !.stage = FirstStage(fn),
                                              !.pc = "token"])
  /\ SpotifyUnchanged

\* getAccessToken up to its await: the credentials, then the cache
GetAccessToken(p) ==
  /\ spotify.calls[p].pc = "token"
  /\ spotify' =
       IF ~spotify.configured
       THEN SetCall(p, Ended(spotify.calls[p], "threw",
                             "Spotify credentials are not configured"))
       ELSE IF TokenIsFresh(spotify.cachedToken, spotify.clock)
       THEN SetCall(p, [spotify.calls[p] EXCEPT
              !.pc = "request",
              !.token = spotify.cachedToken.token,
              !.cacheRead = [cachedToken |-> spotify.cachedToken,
                             clock |-> spotify.clock]])
       ELSE SetCall(p, [spotify.calls[p] EXCEPT !.pc = "token_fetch"])
  /\ SpotifyUnchanged

\* the token endpoint answered with a token: the cache is written
TokenGranted(p) ==
  /\ spotify.calls[p].pc = "token_fetch"
  /\ \E expires_in \in {0, ShortExpiresIn} :
       LET token == "token" \o ToString(Cardinality(spotify.issued) + 1)
       IN spotify' =
            [spotify EXCEPT
               !.cachedToken = CachedToken(token, expires_in, spotify.clock),
               !.issued = spotify.issued \cup
                            { [access_token |-> token,
                               expires_in |-> expires_in,
                               at |-> spotify.clock] },
               !.calls[p] = [spotify.calls[p] EXCEPT !.pc = "request",
                                                     !.token = token]]
  /\ SpotifyUnchanged

\* the token endpoint refused, or the request failed
TokenRefused(p) ==
  /\ spotify.calls[p].pc = "token_fetch"
  /\ \E message \in {"Spotify client credentials are invalid"} :
       spotify' = SetCall(p, Ended(spotify.calls[p], "threw",
                    "Failed to get Spotify access token: Error: "
                      \o message))
  /\ SpotifyUnchanged

\* the API answered 200: the call returns, or getTrackAlbum goes on from
\* getTrackDetails to its own request
ApiAnswers(p) ==
  /\ spotify.calls[p].pc = "request"
  /\ spotify' =
       IF spotify.calls[p].stage # spotify.calls[p].fn
       THEN SetCall(p, [spotify.calls[p] EXCEPT
              !.pc = "token", !.stage = spotify.calls[p].fn, !.token = Null,
              !.cacheRead = NoCacheRead])
       ELSE SetCall(p, Ended(spotify.calls[p], "returned", "ok"))
  /\ SpotifyUnchanged

\* the API answered 401: the cache is cleared and the function calls itself
ApiUnauthorized(p) ==
  /\ spotify.calls[p].pc = "request"
  /\ spotify.unauthorized < MaxUnauthorized
  /\ spotify' = [spotify EXCEPT
                   !.cachedToken = NoCachedToken,
                   !.unauthorized = spotify.unauthorized + 1,
                   !.calls[p] = RetryAfter401(spotify.calls[p])]
  /\ SpotifyUnchanged

\* the API answered with another error status
ApiFails(p) ==
  /\ spotify.calls[p].pc = "request"
  /\ \E status \in ApiErrorStatuses :
       spotify' = SetCall(p, Ended(spotify.calls[p], "threw",
                    ApiFailure(spotify.calls[p].stage, status)))
  /\ SpotifyUnchanged

\* time passes, five minutes at a time
ClockTick ==
  /\ spotify.ticks < MaxClockTicks
  /\ spotify' = [spotify EXCEPT !.ticks = spotify.ticks + 1,
                                !.clock = spotify.clock + TokenBufferMs]
  /\ SpotifyUnchanged

NextSpotify ==
  \/ \E p \in Callers : BeginCall(p)
  \/ \E p \in Callers : GetAccessToken(p)
  \/ \E p \in Callers : TokenGranted(p)
  \/ \E p \in Callers : TokenRefused(p)
  \/ \E p \in Callers : ApiAnswers(p)
  \/ \E p \in Callers : ApiUnauthorized(p)
  \/ \E p \in Callers : ApiFails(p)
  \/ ClockTick

SpecSpotify == InitSpotify /\ [][NextSpotify]_vars

\* the cache entry written from one token response
FromTokenResponse(r) ==
  [token |-> r.access_token,
   expiresAt |-> r.at + (IF r.expires_in = 0 THEN DefaultExpiresIn
                         ELSE r.expires_in) * 1000]

\* C23: under any interleaving of getAccessToken calls and invalidations of
\* the cache, the cached token is null or the token and the expiry of one
\* single token response; a token a call obtained came from a token
\* response; and a token was taken from the cache without a fetch only when
\* its expiry was more than five minutes ahead.
C23_TokenCache ==
  /\ \/ spotify.cachedToken = NoCachedToken
     \/ \E r \in spotify.issued :
          spotify.cachedToken = FromTokenResponse(r)
  /\ \A p \in Callers :
       /\ spotify.calls[p].pc = "request" =>
            \E r \in spotify.issued :
              spotify.calls[p].token = r.access_token
       /\ spotify.calls[p].cacheRead # NoCacheRead =>
            /\ spotify.calls[p].token
                 = spotify.calls[p].cacheRead.cachedToken.token
            /\ spotify.calls[p].cacheRead.cachedToken.expiresAt
                 > spotify.calls[p].cacheRead.clock + 5 * 60 * 1000
            /\ \E r \in spotify.issued :
                 spotify.calls[p].cacheRead.cachedToken
                   = FromTokenResponse(r)

\* one call uses the cached token of a second token response while the
\* other call has cleared the cache and asks for a token again
C23_CacheRaced ==
  \E p, q \in Callers :
    /\ p # q
    /\ spotify.calls[p].cacheRead # NoCacheRead
    /\ spotify.calls[q].retries >= 1
    /\ spotify.calls[q].pc = "token_fetch"
    /\ Cardinality(spotify.issued) >= 2

\* C28: a call of searchTracks, getTrackDetails, getTrackRecommendations or
\* getTrackAlbum answers a 401 by clearing the cached token and trying the
\* request once more, at most once per call, so that it ends even if the
\* API keeps answering 401.
C28_AtMostOneRetry ==
  \A p \in Callers : spotify.calls[p].retries <= 1

(***************************************************************************)
(* The constraint extractors on their own, over messages put together from *)
(* a beginning and an end.                                                 *)
(***************************************************************************)
MessageHeads ==
  { "horror movies", "film noir, nothing scary", "no horror",
    "another thriller like 'Alien'", "without 'Alien'",
    "skip the kids stuff", "unavoid the Bourne saga",
    "avoid the Bourne saga", "knots in star trek", "not star trek",
    "a western" }
MessageTails ==
  { "", " after 2015", " since 1999, recent ones", " at least from 2000",
    " at least 2005 and before 2010", " before 1990", " older than 1990",
    " older than 1850", " from the last 10 years",
    " of the last 5 years or after 2001", " recent", " latest and modern",
    " not so old", " not as old as Heat", " not as old as Butch Cassidy",
    " not as old as Alien but recent" }
ExtractMessages == { head \o tail : head \in MessageHeads, tail \in MessageTails }

InitExtract ==
  InitWith({"u1"}, {"c1"}, ExtractMessages, {TRUE}, {FALSE}, {SearchCall},
           {EnvAllOk}, {InitialWatched}, "extract")

RunExtractWith(message, genres, titles, years) ==
  extractRun' = [message |-> message, excludedGenres |-> genres,
                 excludedTitles |-> titles, yearConstraints |-> years]

RunExtract ==
  /\ pc = "extract"
  /\ extractRun = NoExtractRun
  /\ RunExtractWith(userMessage, extractExcludedGenres(userMessage),
                    extractExcludedTitles(userMessage),
                    extractYearConstraints(userMessage))
  /\ UNCHANGED << requestVars, storeVars, pc, turnLocals, turnHistory,
                  toolRun, mergeRun, replayRun, routeVars, turns, saves,
                  feedbackVars, cleared, fetches, spotify, songRun >>

SpecExtract == InitExtract /\ [][RunExtract]_vars

\* the words of a text: its longest runs of letters, digits and underscores,
\* as pairs of positions
WordRuns(s) ==
  { run \in (1..Len(s)) \X (1..Len(s)) :
      /\ run[1] <= run[2]
      /\ \A k \in run[1]..run[2] : IsWordChar(CharAt(s, k))
      /\ (run[1] = 1 \/ ~IsWordChar(CharAt(s, run[1] - 1)))
      /\ (run[2] = Len(s) \/ ~IsWordChar(CharAt(s, run[2] + 1))) }
Words(s) == { SubSeq(s, run[1], run[2]) : run \in WordRuns(s) }

\* C24: for a message in which no negation cue word stands as a whole word,
\* extractExcludedGenres and extractExcludedTitles both return the empty
\* list, whatever genre aliases, quoted titles or franchise names it holds.
C24_NoCueNoExclusion ==
  (extractRun.message # Null
     /\ Words(ToLowerCase(extractRun.message)) \cap AVOID_CUES = {})
    => /\ extractRun.excludedGenres = <<>>
       /\ extractRun.excludedTitles = <<>>

\* a message with a genre alias and with cue words inside other words only
C24_CueInsideWord ==
  /\ extractRun.message = "film noir, nothing scary"
  /\ extractRun.excludedGenres = <<>>
  /\ extractRun.excludedTitles = <<>>

\* the constraint of the first pattern of the fixed order that the message
\* matches; a matching "not as old as <title>" defers to some title
FirstPatternOf(message, constraint) ==
  LET lower == ToLowerCase(message)
      after == KeywordYear(lower, {"after", "since"}, 1)
      atLeast ==
        KeywordYear(lower, {"at least from", "at least since", "at least "}, 0)
      before == KeywordYear(lower, {"before", "older than"}, 1)
      lastYears == LastYears(lower)
      recent == \E cue \in RECENT_CUES : HasWord(lower, cue)
      notAsOldAs == FirstCapture(message, {"not as old as"})
  IN IF after # NoYear THEN constraint = YearConstraints(after, NoYear, Null)
     ELSE IF atLeast # NoYear
     THEN constraint = YearConstraints(atLeast, NoYear, Null)
     ELSE IF before # NoYear
     THEN constraint = YearConstraints(NoYear, before, Null)
     ELSE IF lastYears # NoYear
     THEN constraint = YearConstraints(CurrentYear - lastYears, NoYear, Null)
     ELSE IF recent
     THEN constraint = YearConstraints(CurrentYear - RecentYears, NoYear, Null)
     ELSE IF notAsOldAs[1]
     THEN /\ constraint.minYear = NoYear
          /\ constraint.maxYear = NoYear
          /\ constraint.notAsOldAsTitle \notin {Null, ""}
     ELSE constraint = YearConstraints(NoYear, NoYear, Null)

\* C25: extractYearConstraints returns the constraint of the first pattern
\* that matches, in the order after/since YYYY, at least (from/since) YYYY,
\* before/older than YYYY, last N years, a recency cue, not as old as
\* <title>; later patterns are ignored once one matches, and a message that
\* matches no pattern yields the empty constraint.
C25_FirstPatternDecides ==
  extractRun.message # Null
    => FirstPatternOf(extractRun.message, extractRun.yearConstraints)

\* the same for every message but those whose "not as old as" title begins
\* with one of the letter runs but, and, without, avoid
C25_ButForSplitTitles ==
  (extractRun.message # Null
     /\ ~Includes(extractRun.message, "not as old as Butch"))
    => FirstPatternOf(extractRun.message, extractRun.yearConstraints)

\* a later pattern is ignored: an after-year wins over a last-years phrase
C25_EarlierPatternWins ==
  /\ extractRun.message = "a western of the last 5 years or after 2001"
  /\ extractRun.yearConstraints = YearConstraints(2001, NoYear, Null)

(***************************************************************************)
(* findMoviesWithSong (src/lib/crossReference.ts): the track search, the   *)
(* catalog queries, the soundtrack check of every movie and the sort.      *)
(***************************************************************************)
\* movieSearchQueries.slice(0, 2), movies.slice(0, 5), results.slice(0, 10)
QuerySlice == 2
MovieSlice == 5
ResultCap == 10

SongRequest(songName, artist) == [songName |-> songName, artist |-> artist]
SongRequests ==
  { SongRequest("Bohemian Rhapsody", "Queen"),
    SongRequest("bohemian rhapsody", Undefined) }
\* what searchTracks answers with
TrackResults ==
  { <<>>, << [id |-> "track-123", name |-> "Bohemian Rhapsody - Remastered"] >> }

CatalogMovie(id) == [id |-> id, title |-> "Wayne's World", releaseYear |-> 1992]
CatalogList(ids) == [i \in 1..Len(ids) |-> CatalogMovie(ids[i])]
\* what searchMovies answers with
CatalogResults ==
  { CatalogList(<<>>), CatalogList(<<1>>), CatalogList(<<2, 1, 3>>),
    CatalogList(<<1, 2, 3, 4, 5, 6>>), CatalogList(<<6, 7, 8, 9, 10, 11>>) }

SoundtrackItem(songTitle, artist) == [songTitle |-> songTitle, artist |-> artist]
NoSoundtrack == <<>>
CreditedSoundtrack == << SoundtrackItem("Bohemian Rhapsody", "Queen") >>
CrewSoundtrack == << SoundtrackItem("Music by Hans Zimmer", "Hans Zimmer") >>
Soundtracks == {NoSoundtrack, CreditedSoundtrack, CrewSoundtrack}
\* the movies whose soundtrack request may answer anything or fail; the
\* request of any other movie answers with the soundtrack of the table
ProbedMovies == {1, 2, 3}
SoundtracksOf(id) ==
  IF id \in ProbedMovies THEN Soundtracks
  ELSE IF id % 2 = 0 THEN {CreditedSoundtrack} ELSE {NoSoundtrack}

\* haystack.toLowerCase().includes(needle.toLowerCase())
LowerIncludes(hay, needle) ==
  needle = "" \/ Includes(ToLowerCase(hay), ToLowerCase(needle))

\* soundtrack.some((item) => ...): item.artist?. is undefined, hence
\* false, for an item that has no artist
HasMatch(soundtrack, request, canonicalName) ==
  \E i \in 1..Len(soundtrack) :
     \/ LowerIncludes(soundtrack[i].songTitle, request.songName)
     \/ /\ soundtrack[i].artist # Undefined
        /\ LowerIncludes(soundtrack[i].artist,
                         IF request.artist = Undefined THEN ""
                         ELSE request.artist)
     \/ LowerIncludes(soundtrack[i].songTitle, canonicalName)

MovieWithSongMatch(movie, confidence) ==
  [movieId |-> movie.id, title |-> movie.title,
   releaseYear |-> movie.releaseYear, matchConfidence |-> confidence]

\* movieCandidates.has(id)
HasCandidate(candidates, id) ==
  \E i \in 1..Len(candidates) : candidates[i].movieId = id

\* movieCandidates.set(id, entry): a Map keeps the place of a key it has
SetCandidate(candidates, entry) ==
  IF HasCandidate(candidates, entry.movieId)
  THEN [i \in 1..Len(candidates) |->
          IF candidates[i].movieId = entry.movieId THEN entry
          ELSE candidates[i]]
  ELSE Append(candidates, entry)

\* a tag that overwrites the one the movie has
Retag(candidates, movie, confidence) ==
  SetCandidate(candidates, MovieWithSongMatch(movie, confidence))

\* if (!movieCandidates.has(movie.id)) movieCandidates.set(movie.id, ...)
TagIfNew(candidates, movie, confidence) ==
  IF HasCandidate(candidates, movie.id) THEN candidates
  ELSE SetCandidate(candidates, MovieWithSongMatch(movie, confidence))

\* the body of the try block for one movie, the soundtrack being read
CheckSoundtrack(candidates, movie, hasMatch) ==
  IF hasMatch
  THEN SetCandidate(candidates, MovieWithSongMatch(movie, "high"))
  ELSE TagIfNew(candidates, movie, "medium")

ConfidenceOrder == [high |-> 3, medium |-> 2, low |-> 1]
CompareConfidence(a, b) ==
  ConfidenceOrder[b.matchConfidence] - ConfidenceOrder[a.matchConfidence]

\* results.sort(compare): Array.prototype.sort is stable
RECURSIVE SortByConfidence(_)
SortByConfidence(results) ==
  IF results = <<>> THEN <<>>
  ELSE LET front == SortByConfidence(SubSeq(results, 1, Len(results) - 1))
           last == results[Len(results)]
           before == { i \in 1..Len(front) :
                         CompareConfidence(front[i], last) <= 0 }
           k == Cardinality(before)
       IN SubSeq(front, 1, k) \o <<last>> \o SubSeq(front, k + 1, Len(front))

\* a value.slice(0, n)
SliceTo(items, n) == SubSeq(items, 1, IF Len(items) < n THEN Len(items) ELSE n)

NotSettled == [ok |-> FALSE, message |-> Undefined]
SongFailure(error) == Throws("Failed to find movies with song: " \o error)
CatalogErrors == {"Error: TMDB API error: 500 Internal Server Error"}
TrackErrors == {"Error: Spotify API rate limit exceeded. Please try again later."}

SongSettled(run, outcome) == [run EXCEPT !.pc = "done", !.outcome = outcome]

\* the loops after a movie: the next movie, the next query, or the sort and
\* the return of the first results
NextMovie(run) ==
  IF run.movies # <<>> THEN [run EXCEPT !.pc = "soundtrack"]
  ELSE IF run.queries # <<>> THEN [run EXCEPT !.pc = "search"]
  ELSE SongSettled(run,
         Returns(SliceTo(SortByConfidence(run.candidates), ResultCap)))

InitSong ==
  /\ InitWith({"u1"}, {"c1"}, {"hello there"}, {TRUE}, {FALSE}, {SearchCall},
              {EnvAllOk}, {InitialWatched}, "song")

SongUnchanged ==
  UNCHANGED << requestVars, storeVars, pc, turnLocals, turnHistory, toolRun,
               mergeRun, replayRun, routeVars, turns, saves, feedbackVars,
               cleared, fetches, spotify, extractRun >>

\* findMoviesWithSong(songName, artist) is called
CallFind ==
  /\ pc = "song"
  /\ songRun = NoSongRun
  /\ \E request \in SongRequests :
       songRun' = [song |-> request.songName, request |-> request,
                   pc |-> "tracks", canonical |-> Null, queries |-> <<>>,
                   movies |-> <<>>, candidates |-> <<>>, confirmed |-> {},
                   catalogQueries |-> 0, outcome |-> NotSettled]
  /\ SongUnchanged

\* searchTracks answers
TracksAnswer ==
  /\ songRun # NoSongRun
  /\ songRun.pc = "tracks"
  /\ \E spotifyResults \in TrackResults :
       songRun' =
         IF Len(spotifyResults) = 0 THEN SongSettled(songRun, Returns(<<>>))
         ELSE LET canonicalSong == spotifyResults[1]
                  movieSearchQueries ==
                    << songRun.request.songName, canonicalSong.name >>
                      \o (IF songRun.request.artist # Undefined
                          THEN << songRun.request.artist >> ELSE <<>>)
              IN [songRun EXCEPT
                    !.pc = "search",
                    !.canonical = canonicalSong.name,
                    !.queries = SliceTo(movieSearchQueries, QuerySlice)]
  /\ SongUnchanged

\* searchTracks throws
TracksFail ==
  /\ songRun # NoSongRun
  /\ songRun.pc = "tracks"
  /\ \E error \in TrackErrors :
       songRun' = SongSettled(songRun, SongFailure(error))
  /\ SongUnchanged

\* searchMovies answers the next query
CatalogAnswers ==
  /\ songRun # NoSongRun
  /\ songRun.pc = "search"
  /\ \E movies \in CatalogResults :
       songRun' =
         NextMovie([songRun EXCEPT
                      !.queries = Tail(@),
                      !.catalogQueries = @ + 1,
                      !.movies = SliceTo(movies, MovieSlice)])
  /\ SongUnchanged

\* searchMovies throws
CatalogFails ==
  /\ songRun # NoSongRun
  /\ songRun.pc = "search"
  /\ \E error \in CatalogErrors :
       songRun' = SongSettled([songRun EXCEPT !.catalogQueries = @ + 1],
                              SongFailure(error))
  /\ SongUnchanged

\* getMovieSoundtrack answers for the next movie
SoundtrackAnswers ==
  /\ songRun # NoSongRun
  /\ songRun.pc = "soundtrack"
  /\ LET movie == Head(songRun.movies)
     IN \E soundtrack \in SoundtracksOf(movie.id) :
          LET hasMatch == HasMatch(soundtrack, songRun.request, songRun.canonical)
          IN songRun' =
               NextMovie([songRun EXCEPT
                  !.movies = Tail(@),
                  !.candidates = CheckSoundtrack(@, movie, hasMatch),
                  !.confirmed = IF hasMatch THEN @ \cup {movie.id} ELSE @])
  /\ SongUnchanged

\* getMovieSoundtrack throws for the next movie
SoundtrackFails ==
  /\ songRun # NoSongRun
  /\ songRun.pc = "soundtrack"
  /\ LET movie == Head(songRun.movies)
     IN /\ movie.id \in ProbedMovies
        /\ songRun' =
             NextMovie([songRun EXCEPT
                !.movies = Tail(@),
                !.candidates = TagIfNew(@, movie, "low")])
  /\ SongUnchanged

NextSong ==
  \/ CallFind
  \/ TracksAnswer
  \/ TracksFail
  \/ CatalogAnswers
  \/ CatalogFails
  \/ SoundtrackAnswers
  \/ SoundtrackFails

SpecSong == InitSong /\ [][NextSong]_vars

\* C26: findMoviesWithSong returns the empty list, the movie catalog not
\* being queried, when the track search finds no song; any other list it
\* returns has at most 10 entries with pairwise distinct movieId, sorted high
\* before medium before low, and starts with a "high" entry whenever the
\* soundtrack of some candidate confirmed the song; a candidate tagged "high"
\* is not downgraded by a later query.
C26_FindMoviesWithSong ==
  songRun # NoSongRun =>
    /\ songRun.canonical = Null => songRun.catalogQueries = 0
    /\ \A i \in 1..Len(songRun.candidates) :
         songRun.candidates[i].movieId \in songRun.confirmed
           => songRun.candidates[i].matchConfidence = "high"
    /\ (songRun.pc = "done" /\ songRun.outcome.ok) =>
         LET results == songRun.outcome.value
             rank(i) ==
               CASE results[i].matchConfidence = "high" -> 1
                 [] results[i].matchConfidence = "medium" -> 2
                 [] results[i].matchConfidence = "low" -> 3
         IN /\ songRun.canonical = Null => results = <<>>
            /\ Len(results) <= 10
            /\ \A i, j \in 1..Len(results) :
                 i < j => /\ results[i].movieId # results[j].movieId
                          /\ rank(i) <= rank(j)
            /\ songRun.confirmed # {} =>
                 /\ results # <<>>
                 /\ results[1].matchConfidence = "high"

\* ten movies are returned, a confirmed one first and one whose soundtrack
\* could not be read last
C26_TenSorted ==
  /\ songRun # NoSongRun
  /\ songRun.pc = "done"
  /\ songRun.outcome.ok
  /\ Len(songRun.outcome.value) = 10
  /\ songRun.outcome.value[1].matchConfidence = "high"
  /\ songRun.outcome.value[10].matchConfidence = "low"
  /\ 6 \in songRun.confirmed

(***************************************************************************)
(* The sources that buildRecommendationResponse awaits, in order.          *)
(***************************************************************************)
\* semanticFiltered, then filterExcludedTitles
SemanticNoTitles(extracted, env) ==
  filterExcludedTitles(
    IF IsSciFi(env.details.value) THEN SelectSeq(env.semantic.value, IsSciFi)
    ELSE env.semantic.value,
    extracted.excludedTitles)

\* tmdbNoTitles, then the filter of requiresSciFi
CatalogFiltered(extracted, env) ==
  LET tmdbNoTitles == filterExcludedTitles(env.recs.value,
                                           extracted.excludedTitles)
  IN IF IsSciFi(env.details.value) THEN SelectSeq(tmdbNoTitles, IsSciFi)
     ELSE tmdbNoTitles

\* every source is asked, whatever the ones before it gave
ConsultedAll(extracted, seedTitle, env) ==
  << "search", "details", "semantic", "catalog", "history" >>

\* the calls of one buildRecommendationResponse: a call that throws is the
\* last one
ConsultedSources(extracted, seedTitle, env) ==
  LET historyPart == << "history" >>
      catalogPart ==
        << "catalog" >>
          \o (IF ~env.recs.ok THEN <<>>
              ELSE IF Len(CatalogFiltered(extracted, env)) = 0
              THEN historyPart ELSE <<>>)
      semanticPart ==
        << "semantic" >>
          \o (IF ~env.semantic.ok THEN <<>>
              ELSE IF Len(SemanticNoTitles(extracted, env)) > 0 THEN <<>>
              ELSE catalogPart)
      detailsPart ==
        << "details" >> \o (IF ~env.details.ok THEN <<>> ELSE semanticPart)
      seedPart ==
        IF seedTitle # Null /\ seedTitle # ""
        THEN << "search" >>
               \o (IF ~env.search.ok THEN <<>>
                   ELSE IF env.search.value # <<>> THEN detailsPart
                   ELSE historyPart)
        ELSE historyPart
  IN IF extracted.yearConstraints.notAsOldAsTitle # Null
     THEN << "yearSearch" >> \o (IF ~env.yearSearch.ok THEN <<>> ELSE seedPart)
     ELSE seedPart

\* C27: in the fast path the catalog recommendation endpoint is queried only
\* if the semantic list is empty after the strict-genre and excluded-title
\* filters; the history aggregate is queried only if no seed was resolved or
\* the seed path gave no movie; and the payload is null only if every source
\* that was consulted gave no movie after filtering.
C27_FallbackOrder ==
  mergeRun # NoMergeRun =>
    LET extracted == ExtractionOf[mergeRun.text]
        env == mergeRun.sources
        seedTitle == SeedTitle(extracted.seedTitle, history)
        calls == ConsultedSources(extracted, seedTitle, env)
        asked(source) == \E i \in 1..Len(calls) : calls[i] = source
        before(a, b) ==
          \A i, j \in 1..Len(calls) : (calls[i] = a /\ calls[j] = b) => i < j
        strict == IsSciFi(env.details.value)
        kept(m) ==
          /\ strict => IsSciFi(m)
          /\ \A k \in 1..Len(extracted.excludedTitles) :
               ~Includes(ToLowerCase(m.title),
                         ToLowerCase(extracted.excludedTitles[k]))
        gives(list) == \E i \in 1..Len(list) : kept(list[i])
        seedResolved == asked("details")
    IN /\ before("semantic", "catalog") /\ before("catalog", "history")
       /\ asked("catalog") => (asked("semantic") /\ env.semantic.ok
                                 /\ ~gives(env.semantic.value))
       /\ asked("history") =>
            \/ ~seedResolved
            \/ /\ asked("semantic") /\ ~gives(env.semantic.value)
               /\ asked("catalog") /\ ~gives(env.recs.value)
       /\ (~mergeRun.out.threw /\ mergeRun.out.override = Null) =>
            /\ asked("semantic") => ~gives(env.semantic.value)
            /\ asked("catalog") => ~gives(env.recs.value)
            /\ asked("history") /\ env.history.ok
            /\ filterExcludedTitles(env.history.value,
                                    extracted.excludedTitles) = <<>>
       /\ (~mergeRun.out.threw /\ mergeRun.out.override # Null) =>
            mergeRun.out.source = calls[Len(calls)]

\* the semantic recommender found movies, none of them passed the strict
\* genre filter, and the catalog endpoint gave the payload
C27_CatalogAfterFilteredSemantic ==
  /\ mergeRun # NoMergeRun
  /\ mergeRun.sources.semantic.ok
  /\ mergeRun.sources.semantic.value # <<>>
  /\ ~mergeRun.out.threw
  /\ mergeRun.out.source = "catalog"

\* every source was consulted in turn and none gave a movie
C27_NothingFound ==
  /\ mergeRun # NoMergeRun
  /\ ~mergeRun.out.threw
  /\ mergeRun.out.override = Null
  /\ mergeRun.sources.search.value # <<>>

\* C29: the context of the first LLM request of a turn is the system prompt,
\* the prior turns of the conversation, and the current user message, which
\* comes once, as the last message.
C29_UserMessageOnce ==
  (pc = "loop" /\ iteration = 0) =>
    messages = << Message("system", SYSTEM_PROMPT) >>
                 \o getConversationHistory(InitialMessages, convId)
                 \o << Message("user", userMessage) >>

\* the context as the code builds it: the current user message comes twice,
\* once as the row just saved and once appended
C29_UserMessageTwice ==
  (pc = "loop" /\ iteration = 0) =>
    messages = << Message("system", SYSTEM_PROMPT) >>
                 \o getConversationHistory(InitialMessages, convId)
                 \o << Message("user", userMessage),
                       Message("user", userMessage) >>

\* the conversation belongs to the user
Owns(user, conversation) ==
  \E c \in conversations : c.id = conversation /\ c.userId = user

\* C30: a send-message request made with userId u and conversationId c
\* appends messages to c only if c belongs to u.
C30_SendOnlyOwn ==
  \A i \in 1..Len(db) :
     (i > Len(InitialMessages) /\ pc # "start")
       => Owns(userId, db[i].conversationId)

\* C30, for the history request: a request made with userId u and
\* conversationId c returns messages only if c belongs to u.
C30_HistoryOnlyOwn ==
  (replayRun # NoReplayRun /\ replayRun.response.status = 200
     /\ replayRun.response.body.messages # <<>>)
    => Owns(replayRun.request.userId, replayRun.response.body.conversationId)

\* C30, for the clear request: a request made with userId u and
\* conversationId c deletes c only if c belongs to u.
C30_ClearOnlyOwn ==
  (cleared # NoClear /\ "request" \in DOMAIN cleared
     /\ cleared.request.conversationId # Null /\ ~cleared.request.clearAll)
    => \A c \in cleared.before.conversations \ conversations :
         c.userId = cleared.request.userId

====
